---- MODULE Spec2Model ----
(***************************************************************************)
(* The notification decision pipeline of email_agent: validator, history   *)
(* store, duplicate detector, rule engine, keyword classifier, scheduler,  *)
(* logger and the DecisionEngine that orchestrates them.                   *)
(*                                                                         *)
(* Conventions of the model                                                *)
(*  - Text is a sequence of one-character strings (ASCII only, so that     *)
(*    unicodedata.normalize("NFKD", .) leaves it unchanged).               *)
(*  - A datetime is a record [k, local, aware, off]: local wall-clock      *)
(*    minutes, whether it carries a UTC offset, and that offset in         *)
(*    minutes.  k = "none" is Python's None.                               *)
(*  - An ISO-8601 string is a record [k, local, sfx]; k tells whether it   *)
(*    parses ("iso"), is an unparsable string ("bad"), is not a string     *)
(*    ("num"), is the empty string ("empty") or is None ("none").          *)
(*  - A raw event is a record of field values plus the set `keys` of the   *)
(*    fields present in the mapping; isdict = FALSE is a non-mapping.      *)
(*  - The string ListValue stands for a JSON array given where a string    *)
(*    is expected (an unhashable value); NoneStr stands for None.          *)
(*  - An exception leaving a function is a result with k = "raised".       *)
(*  - The free-text reason of an output is kept as the name of the stage   *)
(*    that wrote it; confidence, raw_output, metadata and input_event are  *)
(*    carried through the code unread and are left out.                    *)
(***************************************************************************)
EXTENDS Integers, Sequences, FiniteSets, TLC

VARIABLES
    history,           \* HistoryStore._store : user_id -> ring of records
    logs,              \* DecisionLogger.logs
    rules,             \* RuleEngine.rules (sorted at load)
    simulate_failure,  \* LLMClassifier.simulate_failure
    now,               \* wall clock, UTC minutes
    next_id,           \* source of fresh uuid4 event ids
    op,                \* the engine operation that ran last
    raw,               \* the argument of the last process_event call
    out,               \* what the last process_event call returned or raised
    nproc,             \* number of process_event calls so far
    nwarm,             \* number of those made as warm-up
    nsteps,            \* number of steps taken after the warm-up
    th,                \* per-thread position and locals of a call in flight
    base,              \* engine state when the calls in flight began
    adm,               \* position of the operator's reset or reload_rules
    replay             \* the last call repeated the event of the call before it

vars == <<history, logs, rules, simulate_failure, now, next_id, op, raw, out,
          nproc, nwarm, nsteps, th, base, adm, replay>>

(***************************************************************************)
(* config.py                                                               *)
(***************************************************************************)
DEDUPE_WINDOW_MINUTES == 10
\* TEXT_SIMILARITY_THRESHOLD = 0.9 as the fraction THRESHOLD_NUM / THRESHOLD_DEN
THRESHOLD_NUM == 9
THRESHOLD_DEN == 10
FREQUENCY_WINDOW_MINUTES == 10
FREQUENCY_LIMIT == 5
HISTORY_BUFFER_SIZE == 30
NOISE_LIMIT_MAX_URGENT == 2
NOISE_LIMIT_WINDOW_MINUTES == 15
QUIET_HOUR_START == 22
QUIET_HOUR_END == 6
QUIET_RESUME_HOUR == 8
BASE_BACKOFF_MINUTES == 5
DEFAULT_WORKING_HOUR == 9

NoneStr == "<none>"
ListValue == "<list>"

FALLBACK_MAP ==
    [p \in {"urgent", "high", "medium", "low"} |->
        CASE p = "urgent" -> "NOW"
          [] p = "high"   -> "NOW"
          [] p = "medium" -> "LATER"
          [] p = "low"    -> "NEVER"]

FALLBACK_EVENT_TYPE_MAP ==
    [t \in {"alert", "system", "message", "reminder", "update", "email", "promotion"} |->
        CASE t \in {"alert", "system"} -> "NOW"
          [] t = "promotion" -> "NEVER"
          [] OTHER -> "LATER"]

(***************************************************************************)
(* datetime values                                                         *)
(***************************************************************************)
MinutesPerDay == 1440

DT(local, aware, off) == [k |-> "dt", local |-> local, aware |-> aware, off |-> off]
NoneDT == [k |-> "none", local |-> 0, aware |-> FALSE, off |-> 0]

\* datetime.now(timezone.utc)
UtcNow(clock) == DT(clock, TRUE, 0)

\* the instant of an aware datetime
Utc(d) == d.local - d.off

\* d.hour : the hour of the wall-clock fields, whatever the offset
HourOf(d) == (d.local % MinutesPerDay) \div 60

\* d + timedelta(minutes=m)
PlusMinutes(d, m) == [d EXCEPT !.local = @ + m]

\* d.replace(hour=h, minute=0, second=0, microsecond=0)
AtHour(d, h) == [d EXCEPT !.local = (@ \div MinutesPerDay) * MinutesPerDay + h * 60]

\* a > b, a >= b raise TypeError when exactly one side carries an offset
Comparable(a, b) == a.aware = b.aware
Key(d) == IF d.aware THEN Utc(d) ELSE d.local
Ge(a, b) == Key(a) >= Key(b)
Gt(a, b) == Key(a) > Key(b)

\* ISO-8601 strings
Iso(local, sfx) == [k |-> "iso", local |-> local, sfx |-> sfx]
NoneIso == [k |-> "none", local |-> 0, sfx |-> ""]
EmptyIso == [k |-> "empty", local |-> 0, sfx |-> ""]
BadIso == [k |-> "bad", local |-> 0, sfx |-> ""]
NumIso == [k |-> "num", local |-> 0, sfx |-> ""]

OffsetOf(sfx) == CASE sfx = "+00:00" -> 0
                   [] sfx = "+05:30" -> 330
                   [] sfx = "-02:00" -> -120
                   [] OTHER -> 0

\* s.replace("Z", "+00:00")
ReplaceZ(s) == IF s.sfx = "Z" THEN [s EXCEPT !.sfx = "+00:00"] ELSE s

\* datetime.fromisoformat(s.replace("Z", "+00:00")) inside the validator's
\* try/except (ValueError, AttributeError): k = "ok" with the datetime, or
\* k = "err" for an unparsable string or a value without .replace
FromIso(s) ==
    IF s.k = "iso"
    THEN LET z == ReplaceZ(s)
         IN [k |-> "ok", dt |-> DT(z.local, z.sfx # "", OffsetOf(z.sfx))]
    ELSE [k |-> "err", dt |-> NoneDT]

\* d.isoformat()
IsoFormat(d) ==
    Iso(d.local, IF ~d.aware THEN ""
                 ELSE CASE d.off = 0 -> "+00:00"
                        [] d.off = 330 -> "+05:30"
                        [] d.off = -120 -> "-02:00"
                        [] OTHER -> "+00:00")

(***************************************************************************)
(* Text: str.lower, str.strip, the character classes \w and \s             *)
(***************************************************************************)
UpperCase == {"A", "B", "C", "D", "E", "F", "G", "H", "I", "J", "K", "L", "M",
              "N", "O", "P", "Q", "R", "S", "T", "U", "V", "W", "X", "Y", "Z"}
LowerCase == {"a", "b", "c", "d", "e", "f", "g", "h", "i", "j", "k", "l", "m",
              "n", "o", "p", "q", "r", "s", "t", "u", "v", "w", "x", "y", "z"}
Digits == {"0", "1", "2", "3", "4", "5", "6", "7", "8", "9"}
WordChars == UpperCase \cup LowerCase \cup Digits \cup {"_"}
SpaceChars == {" ", "\t", "\n"}

LowerOf ==
    "A" :> "a" @@ "B" :> "b" @@ "C" :> "c" @@ "D" :> "d" @@ "E" :> "e" @@
    "F" :> "f" @@ "G" :> "g" @@ "H" :> "h" @@ "I" :> "i" @@ "J" :> "j" @@
    "K" :> "k" @@ "L" :> "l" @@ "M" :> "m" @@ "N" :> "n" @@ "O" :> "o" @@
    "P" :> "p" @@ "Q" :> "q" @@ "R" :> "r" @@ "S" :> "s" @@ "T" :> "t" @@
    "U" :> "u" @@ "V" :> "v" @@ "W" :> "w" @@ "X" :> "x" @@ "Y" :> "y" @@
    "Z" :> "z"

LowerChar(c) == IF c \in UpperCase THEN LowerOf[c] ELSE c

\* text.lower()
Lower(s) == [i \in 1..Len(s) |-> LowerChar(s[i])]

RECURSIVE LStrip(_)
LStrip(s) == IF s # <<>> /\ Head(s) \in SpaceChars THEN LStrip(Tail(s)) ELSE s

RECURSIVE RStrip(_)
RStrip(s) ==
    IF s # <<>> /\ s[Len(s)] \in SpaceChars THEN RStrip(SubSeq(s, 1, Len(s) - 1)) ELSE s

\* s.strip()
Strip(s) == RStrip(LStrip(s))

\* re.sub(r'\s+', ' ', s)
RECURSIVE CollapseSpaces(_)
CollapseSpaces(s) ==
    IF s = <<>> THEN <<>>
    ELSE IF Head(s) \in SpaceChars
         THEN <<" ">> \o CollapseSpaces(LStrip(s))
         ELSE <<Head(s)>> \o CollapseSpaces(Tail(s))

(***************************************************************************)
(* duplicate_detector.py                                                   *)
(***************************************************************************)
\* re.sub(r'[^\w\s]', '', text)
RECURSIVE StripPunctuation(_)
StripPunctuation(s) ==
    IF s = <<>> THEN <<>>
    ELSE IF Head(s) \in WordChars \cup SpaceChars
         THEN <<Head(s)>> \o StripPunctuation(Tail(s))
         ELSE StripPunctuation(Tail(s))

normalize_text(text) == Strip(CollapseSpaces(StripPunctuation(Lower(text))))

Min2(a, b) == IF a < b THEN a ELSE b
Max2(a, b) == IF a > b THEN a ELSE b
Abs(a) == IF a < 0 THEN -a ELSE a

\* the inner loop: acc holds cells 0..j-1 of row i (so j = Len(acc)), c is s1[i]
RECURSIVE LevCells(_, _, _, _)
LevCells(prev, c, s2, acc) ==
    IF Len(acc) > Len(s2) THEN acc
    ELSE LevCells(prev, c, s2,
                  Append(acc, IF c = s2[Len(acc)] THEN prev[Len(acc)]
                              ELSE 1 + Min2(prev[Len(acc)],
                                            Min2(prev[Len(acc) + 1], acc[Len(acc)]))))

\* one row of the dynamic program: row[j+1] is the distance between the first i
\* characters of s1 and the first j characters of s2
RECURSIVE LevRow(_, _, _)
LevRow(s1, s2, i) ==
    IF i = 0 THEN [j \in 1..(Len(s2) + 1) |-> j - 1]
    ELSE LevCells(LevRow(s1, s2, i - 1), s1[i], s2, <<i>>)

LevDistance(s1, s2) == LevRow(s1, s2, Len(s1))[Len(s2) + 1]

\* abs(len1 - len2) / max(len1, len2) > (1 - TEXT_SIMILARITY_THRESHOLD), in binary
\* floating point: 1 - 0.9 evaluates to 0.09999999999999998, just below 1/10, so
\* the quotient exceeds it exactly when it is at least 1/10
LengthGateRejects(len1, len2) ==
    Abs(len1 - len2) * THRESHOLD_DEN >= (THRESHOLD_DEN - THRESHOLD_NUM) * Max2(len1, len2)

\* levenshtein_ratio(s1, s2) as the fraction num / den (den > 0)
levenshtein_ratio(s1, s2) ==
    IF s1 = s2 THEN [num |-> 1, den |-> 1]
    ELSE IF s1 = <<>> \/ s2 = <<>> THEN [num |-> 0, den |-> 1]
    ELSE LET len1 == Len(s1)
             len2 == Len(s2)
             max_len == Max2(len1, len2)
         IN IF LengthGateRejects(len1, len2)
            THEN [num |-> 0, den |-> 1]
            ELSE [num |-> max_len - LevDistance(s1, s2), den |-> max_len]

\* ratio >= self.similarity_threshold
AtLeastThreshold(r) == r.num * THRESHOLD_DEN >= THRESHOLD_NUM * r.den

(***************************************************************************)
(* input_validator.py                                                      *)
(***************************************************************************)
REQUIRED_FIELDS == <<"user_id", "event_type", "message", "timestamp", "channel">>
VALID_EVENT_TYPES == {"message", "reminder", "alert", "promotion", "system", "update", "email"}
VALID_CHANNELS == {"push", "email", "sms", "in_app"}
VALID_PRIORITY_HINTS == {"low", "medium", "high", "urgent"}

\* Python truthiness: "", None, an empty text and an empty or null timestamp are
\* false; any other value (a JSON array too) is true
TruthyStr(v) == v \notin {"", NoneStr}
TruthyText(v) == v # <<>>
TruthyIso(v) == v.k \notin {"empty", "none"}

\* not event[field], for a required field
Falsy(event, field) ==
    CASE field = "message" -> ~TruthyText(event.message)
      [] field = "timestamp" -> ~TruthyIso(event.timestamp)
      [] OTHER -> ~TruthyStr(event[field])

\* event.get(f, default)
Get(event, f, default) == IF f \in event.keys THEN event[f] ELSE default

\* x in <a set of strings> : hashing a list raises TypeError
Hashable(v) == v # ListValue

NoEvent ==
    [event_id |-> 0, user_id |-> "", event_type |-> "", title |-> <<>>, message |-> <<>>,
     source |-> "", priority_hint |-> NoneStr, timestamp |-> NoneIso,
     parsed_timestamp |-> NoneDT, channel |-> "", dedupe_key |-> NoneStr,
     expires_at |-> NoneDT]

Valid(ev) == [k |-> "ok", ev |-> ev]
Invalid == [k |-> "ValidationError", ev |-> NoEvent]
TypeErrorIn == [k |-> "TypeError", ev |-> NoEvent]

\* validate_event(event); fresh is the uuid4 drawn for a missing event_id
validate_event(event, fresh) ==
    IF ~event.isdict THEN Invalid
    ELSE IF \E i \in 1..Len(REQUIRED_FIELDS) :
                \/ REQUIRED_FIELDS[i] \notin event.keys
                \/ Falsy(event, REQUIRED_FIELDS[i])
    THEN Invalid
    ELSE IF ~Hashable(event.event_type) THEN TypeErrorIn
    ELSE IF event.event_type \notin VALID_EVENT_TYPES THEN Invalid
    ELSE IF ~Hashable(event.channel) THEN TypeErrorIn
    ELSE IF event.channel \notin VALID_CHANNELS THEN Invalid
    ELSE LET ts == FromIso(event.timestamp)
             hint == Get(event, "priority_hint", NoneStr)
             exp_raw == Get(event, "expires_at", NoneIso)
             exp == FromIso(exp_raw)
             normalized ==
                 [event_id |-> Get(event, "event_id", fresh),
                  user_id |-> event.user_id,
                  event_type |-> event.event_type,
                  title |-> Get(event, "title", <<>>),
                  message |-> event.message,
                  source |-> Get(event, "source", "unknown"),
                  priority_hint |-> hint,
                  timestamp |-> IsoFormat(ts.dt),
                  parsed_timestamp |-> ts.dt,
                  channel |-> event.channel,
                  dedupe_key |-> Get(event, "dedupe_key", NoneStr),
                  expires_at |-> NoneDT]
         IN IF ts.k = "err" THEN Invalid
            ELSE IF TruthyStr(hint) /\ ~Hashable(hint) THEN TypeErrorIn
            ELSE IF TruthyStr(hint) /\ hint \notin VALID_PRIORITY_HINTS THEN Invalid
            ELSE IF TruthyIso(exp_raw)
                 THEN IF exp.k = "err" THEN Invalid
                      ELSE Valid([normalized EXCEPT !.expires_at = exp.dt])
                 ELSE Valid(normalized)

(***************************************************************************)
(* history_store.py                                                        *)
(***************************************************************************)
Ok(v) == [k |-> "ok", v |-> v]
Raised == [k |-> "raised", v |-> <<>>]

\* window_minutes = None
NoWindow == -1

\* the records of s whose parsed_timestamp >= cutoff, in order
RECURSIVE InWindow(_, _)
InWindow(s, cutoff) ==
    IF s = <<>> THEN <<>>
    ELSE IF Ge(Head(s).parsed_timestamp, cutoff)
         THEN <<Head(s)>> \o InWindow(Tail(s), cutoff)
         ELSE InWindow(Tail(s), cutoff)

\* an append to a list that is never trimmed
HistoryAddUnbounded(store, user_id, record) ==
    [store EXCEPT ![user_id] = Append(store[user_id], record)]

\* a store that is not keyed by user: the record goes to every user's buffer
HistoryAddShared(store, user_id, record) ==
    [u \in DOMAIN store |-> Append(store[u], record)]

\* HistoryStore.add : append to deque(maxlen=buffer_size)
HistoryAdd(store, user_id, record) ==
    LET ring == store[user_id]
    IN [store EXCEPT ![user_id] =
            IF Len(ring) >= HISTORY_BUFFER_SIZE
            THEN Tail(ring) \o <<record>>
            ELSE Append(ring, record)]

\* the records of s whose parsed_timestamp > cutoff, in order
RECURSIVE AfterCutoff(_, _)
AfterCutoff(s, cutoff) ==
    IF s = <<>> THEN <<>>
    ELSE IF Gt(Head(s).parsed_timestamp, cutoff)
         THEN <<Head(s)>> \o AfterCutoff(Tail(s), cutoff)
         ELSE AfterCutoff(Tail(s), cutoff)

\* a window that leaves out the record stamped exactly at the cutoff
get_recent_after_cutoff(store, user_id, window_minutes, clock) ==
    LET records == store[user_id]
        cutoff == PlusMinutes(UtcNow(clock), -window_minutes)
    IN IF window_minutes = NoWindow THEN Ok(records)
       ELSE IF \E i \in 1..Len(records) : ~Comparable(records[i].parsed_timestamp, cutoff)
            THEN Raised
            ELSE Ok(AfterCutoff(records, cutoff))

\* HistoryStore.get_recent : the comparison of a record's parsed_timestamp with
\* the offset-aware cutoff raises TypeError for a record without UTC offset
get_recent(store, user_id, window_minutes, clock) ==
    LET records == store[user_id]
        cutoff == PlusMinutes(UtcNow(clock), -window_minutes)
    IN IF window_minutes = NoWindow THEN Ok(records)
       ELSE IF \E i \in 1..Len(records) : ~Comparable(records[i].parsed_timestamp, cutoff)
            THEN Raised
            ELSE Ok(InWindow(records, cutoff))

\* the number of records of s in the set of records S
RECURSIVE CountIn(_, _)
CountIn(s, S) ==
    IF s = <<>> THEN 0
    ELSE (IF Head(s) \in S THEN 1 ELSE 0) + CountIn(Tail(s), S)

Range(s) == {s[i] : i \in 1..Len(s)}

\* the records of s that lie in S, in order
RECURSIVE Select(_, _)
Select(s, S) ==
    IF s = <<>> THEN <<>>
    ELSE IF Head(s) \in S THEN <<Head(s)>> \o Select(Tail(s), S)
         ELSE Select(Tail(s), S)

\* a count of the delivered (NOW) records of the window only
count_now_in_window(store, user_id, window_minutes, clock) ==
    LET recent == get_recent(store, user_id, window_minutes, clock)
    IN IF recent.k = "raised" THEN Raised
       ELSE Ok(CountIn(recent.v, {r \in Range(recent.v) : r.decision = "NOW"}))

\* a count that leaves out the suppressed (NEVER) records of the window
count_unsuppressed_in_window(store, user_id, window_minutes, clock) ==
    LET recent == get_recent(store, user_id, window_minutes, clock)
    IN IF recent.k = "raised" THEN Raised
       ELSE Ok(CountIn(recent.v, {r \in Range(recent.v) : r.decision # "NEVER"}))

count_in_window(store, user_id, window_minutes, clock) ==
    LET recent == get_recent(store, user_id, window_minutes, clock)
    IN IF recent.k = "raised" THEN Raised ELSE Ok(Len(recent.v))

count_urgent_by_source_or_type(store, user_id, event_type, source, window_minutes, clock) ==
    LET recent == get_recent(store, user_id, window_minutes, clock)
    IN IF recent.k = "raised" THEN Raised
       ELSE Ok(CountIn(recent.v,
                       {r \in Range(recent.v) :
                           /\ r.decision = "NOW"
                           /\ (r.event_type = event_type \/ r.source = source)}))

get_dedupe_key_entries(store, user_id, dedupe_key, window_minutes, clock) ==
    LET recent == get_recent(store, user_id, window_minutes, clock)
    IN IF recent.k = "raised" THEN Raised
       ELSE Ok(Select(recent.v, {r \in Range(recent.v) : r.dedupe_key = dedupe_key}))

get_text_entries(store, user_id, window_minutes, clock) ==
    LET recent == get_recent(store, user_id, window_minutes, clock)
    IN IF recent.k = "raised" THEN Raised
       ELSE Ok(Select(recent.v, {r \in Range(recent.v) : r.normalized_text # <<>>}))

\* d.date() : the calendar day of the wall-clock fields
DateOf(d) == d.local \div MinutesPerDay

\* a daily count that takes the records of every day
count_event_type_any_day(store, user_id, event_type, clock) ==
    LET records == store[user_id]
    IN CountIn(records, {r \in Range(records) : r.event_type = event_type})

count_event_type_today(store, user_id, event_type, clock) ==
    LET today == DateOf(UtcNow(clock))
        records == store[user_id]
    IN CountIn(records,
               {r \in Range(records) :
                   r.event_type = event_type /\ DateOf(r.parsed_timestamp) = today})

\* a clear that leaves the store as it is
HistoryClearNothing(store) == store

\* HistoryStore.clear
HistoryClear(store) == [u \in DOMAIN store |-> <<>>]

(***************************************************************************)
(* llm_classifier.py                                                       *)
(*                                                                         *)
(* A keyword pattern is a sequence of elements: a literal character, the   *)
(* word boundary \b, \d+, \s* and .? ; re.search succeeds when the pattern *)
(* matches at some position of the text.                                   *)
(***************************************************************************)
Boundary == [t |-> "b", c |-> ""]
DigitsPlus == [t |-> "d+", c |-> ""]
SpacesStar == [t |-> "s*", c |-> ""]
AnyOpt == [t |-> ".?", c |-> ""]
B == <<Boundary>>
Lit(s) == [i \in 1..Len(s) |-> [t |-> "c", c |-> s[i]]]
\* r'\bword\b'
Word(s) == B \o Lit(s) \o B
\* r'\bstem'
Stem(s) == B \o Lit(s)

IsWordAt(text, i) == i \in 1..Len(text) /\ text[i] \in WordChars

\* the positions at which a match of pat[k..] that starts at text[i] can end
RECURSIVE MatchEnds(_, _, _, _)
MatchEnds(pat, k, text, i) ==
    IF k > Len(pat) THEN {i}
    ELSE LET e == pat[k]
         IN CASE e.t = "b" ->
                   IF IsWordAt(text, i - 1) # IsWordAt(text, i)
                   THEN MatchEnds(pat, k + 1, text, i) ELSE {}
              [] e.t = "c" ->
                   IF i <= Len(text) /\ text[i] = e.c
                   THEN MatchEnds(pat, k + 1, text, i + 1) ELSE {}
              [] e.t = "d+" ->
                   UNION {MatchEnds(pat, k + 1, text, j) :
                            j \in {j \in (i + 1)..(Len(text) + 1) :
                                     \A m \in i..(j - 1) : text[m] \in Digits}}
              [] e.t = "s*" ->
                   UNION {MatchEnds(pat, k + 1, text, j) :
                            j \in {j \in i..(Len(text) + 1) :
                                     \A m \in i..(j - 1) : text[m] \in SpaceChars}}
              [] e.t = ".?" ->
                   MatchEnds(pat, k + 1, text, i)
                   \cup (IF i <= Len(text) /\ text[i] # "\n"
                         THEN MatchEnds(pat, k + 1, text, i + 1) ELSE {})

\* re.search(pat, text) is not None
Search(pat, text) == \E i \in 1..(Len(text) + 1) : MatchEnds(pat, 1, text, i) # {}

URGENT_KEYWORDS ==
    <<Word(<<"o", "t", "p">>),
      Word(<<"p", "a", "s", "s", "w", "o", "r", "d">>),
      Word(<<"2", "f", "a">>),
      Stem(<<"v", "e", "r", "i", "f">>),
      Word(<<"d", "o", "w", "n">>),
      Word(<<"o", "u", "t", "a", "g", "e">>),
      Word(<<"c", "r", "i", "t", "i", "c", "a", "l">>),
      Word(<<"e", "m", "e", "r", "g", "e", "n", "c", "y">>),
      Word(<<"s", "e", "c", "u", "r", "i", "t", "y">>),
      Word(<<"b", "r", "e", "a", "c", "h">>),
      Word(<<"f", "a", "i", "l", "u", "r", "e">>),
      Word(<<"f", "a", "i", "l", "e", "d">>),
      Stem(<<"e", "x", "p", "i", "r">>),
      Word(<<"b", "l", "o", "c", "k", "e", "d">>),
      Word(<<"u", "n", "a", "u", "t", "h", "o", "r", "i", "z", "e", "d">>),
      Word(<<"9", "5", "%">>),
      Word(<<"1", "0", "0", "%">>),
      Word(<<"9", "9", "%">>),
      Word(<<"o", "v", "e", "r", "l", "o", "a", "d">>),
      Stem(<<"c", "r", "a", "s", "h">>),
      Word(<<"e", "r", "r", "o", "r">>),
      Word(<<"a", "l", "e", "r", "t">>)>>

PROMO_KEYWORDS ==
    <<Word(<<"s", "a", "l", "e">>),
      Word(<<"d", "i", "s", "c", "o", "u", "n", "t">>),
      B \o <<DigitsPlus>> \o Lit(<<"%">>) \o <<SpacesStar>> \o Lit(<<"o", "f", "f">>) \o B,
      Word(<<"f", "l", "a", "t">>),
      Stem(<<"p", "r", "o", "m", "o">>),
      Word(<<"c", "o", "u", "p", "o", "n">>),
      Word(<<"d", "e", "a", "l">>),
      Word(<<"o", "f", "f", "e", "r">>),
      Word(<<"f", "r", "e", "e">>),
      Word(<<"c", "l", "e", "a", "r", "a", "n", "c", "e">>),
      B \o Lit(<<"l", "i", "m", "i", "t", "e", "d">>) \o <<AnyOpt>> \o Lit(<<"t", "i", "m", "e">>) \o B>>

LATER_KEYWORDS ==
    <<Word(<<"r", "e", "m", "i", "n", "d", "e", "r">>),
      Word(<<"s", "u", "b", "m", "i", "t">>),
      Word(<<"u", "p", "d", "a", "t", "e">>),
      Word(<<"w", "e", "e", "k", "l", "y">>),
      Word(<<"m", "o", "n", "t", "h", "l", "y">>),
      Word(<<"s", "u", "m", "m", "a", "r", "y">>),
      Word(<<"d", "i", "g", "e", "s", "t">>),
      Word(<<"n", "e", "w", "s", "l", "e", "t", "t", "e", "r">>),
      Word(<<"r", "e", "p", "o", "r", "t">>),
      Stem(<<"s", "c", "h", "e", "d", "u", "l">>)>>

\* sum(1 for kw in keywords if re.search(kw, text))
KeywordScore(keywords, text) ==
    Cardinality({n \in 1..Len(keywords) : Search(keywords[n], text)})

\* the three keyword counts of a text
KeywordHits(text) ==
    [urgent |-> KeywordScore(URGENT_KEYWORDS, text),
     promo |-> KeywordScore(PROMO_KEYWORDS, text),
     later |-> KeywordScore(LATER_KEYWORDS, text)]

\* the titles and messages of the events explored
TextHi == <<"h", "i">>
TextHiBang == <<"H", "i", "!">>
TextBang == <<"!">>
TextOtp == <<"O", "T", "P">>
TextSale == <<"s", "a", "l", "e">>
Titles == {<<>>}
\* texts with no keyword: nine characters, one more, and one substituted
TextNine == <<"a", "b", "c", "d", "e", "f", "g", "h", "i">>
TextTen == TextNine \o <<"j">>
TextTenX == TextNine \o <<"x">>
Messages == {TextHi, TextHiBang, TextBang, TextOtp, TextSale, TextNine, TextTen, TextTenX}

\* the counts of those texts, computed once
HitsTable ==
    [text \in {Lower(t \o <<" ">> \o m) : t \in Titles, m \in Messages} |->
        KeywordHits(text)]
Hits(text) == IF text \in DOMAIN HitsTable THEN HitsTable[text] ELSE KeywordHits(text)

Classified(label, code, used_fallback) ==
    [label |-> label, explanation_code |-> code, used_fallback |-> used_fallback,
     reason |-> "classifier"]

\* a comparison that gives a tie for the maximum to the urgent score
ScoreLabelTiesToUrgent(event_type, urgent_score, promo_score, later_score) ==
    IF urgent_score >= promo_score /\ urgent_score >= later_score /\ urgent_score > 0
    THEN Classified("NOW",
                    IF urgent_score >= 2 THEN "URGENT_KEYWORD" ELSE "LLM_DECISION",
                    FALSE)
    ELSE IF promo_score > urgent_score /\ promo_score > later_score
    THEN Classified("NEVER", "LLM_DECISION", FALSE)
    ELSE IF later_score > 0
    THEN Classified("LATER", "LLM_DECISION", FALSE)
    ELSE Classified(IF event_type \in DOMAIN FALLBACK_EVENT_TYPE_MAP
                    THEN FALLBACK_EVENT_TYPE_MAP[event_type] ELSE "LATER",
                    "LLM_DECISION", FALSE)

\* LLMClassifier._llm_classify, the comparison of the three scores
ScoreLabel(event_type, urgent_score, promo_score, later_score) ==
    IF urgent_score > promo_score /\ urgent_score > later_score
    THEN Classified("NOW",
                    IF urgent_score >= 2 THEN "URGENT_KEYWORD" ELSE "LLM_DECISION",
                    FALSE)
    ELSE IF promo_score > urgent_score /\ promo_score > later_score
    THEN Classified("NEVER", "LLM_DECISION", FALSE)
    ELSE IF later_score > 0
    THEN Classified("LATER", "LLM_DECISION", FALSE)
    ELSE Classified(IF event_type \in DOMAIN FALLBACK_EVENT_TYPE_MAP
                    THEN FALLBACK_EVENT_TYPE_MAP[event_type] ELSE "LATER",
                    "LLM_DECISION", FALSE)

\* LLMClassifier._llm_classify, the scores of an event whose text has the keyword
\* counts hits
Scored(event, hits) ==
    ScoreLabel(event.event_type,
               hits.urgent
               + (CASE event.priority_hint = "urgent" -> 3
                    [] event.priority_hint = "high" -> 2
                    [] OTHER -> 0)
               + (IF event.event_type \in {"alert", "system"} THEN 2 ELSE 0)
               + (IF event.channel = "sms" THEN 1 ELSE 0),
               hits.promo
               + (IF event.priority_hint = "low" THEN 2 ELSE 0)
               + (IF event.event_type = "promotion" THEN 3 ELSE 0),
               hits.later
               + (IF event.event_type = "reminder" THEN 2 ELSE 0))

\* LLMClassifier._llm_classify
llm_classify(event) == Scored(event, Hits(Lower(event.title \o <<" ">> \o event.message)))

\* LLMClassifier._fallback
\* a fallback that looks at the event type before the priority hint
llm_fallback_type_first(event) ==
    LET priority == event.priority_hint
        event_type == event.event_type
    IN Classified(IF event_type \in DOMAIN FALLBACK_EVENT_TYPE_MAP
                  THEN FALLBACK_EVENT_TYPE_MAP[event_type]
                  ELSE IF priority \in DOMAIN FALLBACK_MAP THEN FALLBACK_MAP[priority]
                       ELSE "LATER",
                  "FALLBACK", TRUE)

llm_fallback(event) ==
    LET priority == event.priority_hint
        event_type == event.event_type
    IN Classified(IF priority \in DOMAIN FALLBACK_MAP THEN FALLBACK_MAP[priority]
                  ELSE IF event_type \in DOMAIN FALLBACK_EVENT_TYPE_MAP
                       THEN FALLBACK_EVENT_TYPE_MAP[event_type]
                       ELSE "LATER",
                  "FALLBACK", TRUE)

\* LLMClassifier.classify ; the scoring of a validated event raises nothing
classify(event, failure) ==
    IF failure THEN llm_fallback(event) ELSE llm_classify(event)

(***************************************************************************)
(* rule_engine.py                                                          *)
(*                                                                         *)
(* A rule is [keys, id, priority, match, action]; match and action carry   *)
(* their own set of present keys.  A downgrade mapping is a function from  *)
(* labels to labels.                                                       *)
(***************************************************************************)
\* r.get("priority", 0)
PriorityOf(r) == IF "priority" \in r.keys THEN r.priority ELSE 0

\* rule.get("id", "unknown")
RuleId(r) == IF "id" \in r.keys THEN r.id ELSE "unknown"

\* sorted(rules, key=lambda r: r.get("priority", 0), reverse=True) : a stable
\* sort, so rules of equal priority keep their order
\* an insertion that puts a rule before the rules of equal priority
RECURSIVE InsertRuleBeforeEquals(_, _)
InsertRuleBeforeEquals(sorted, r) ==
    IF sorted = <<>> THEN <<r>>
    ELSE IF PriorityOf(Head(sorted)) > PriorityOf(r)
         THEN <<Head(sorted)>> \o InsertRuleBeforeEquals(Tail(sorted), r)
         ELSE <<r>> \o sorted

RECURSIVE InsertRule(_, _)
InsertRule(sorted, r) ==
    IF sorted = <<>> THEN <<r>>
    ELSE IF PriorityOf(Head(sorted)) >= PriorityOf(r)
         THEN <<Head(sorted)>> \o InsertRule(Tail(sorted), r)
         ELSE <<r>> \o sorted

\* the rules kept in the order of the document, without the sort
LoadUnsorted(rs) == rs

RECURSIVE SortRules(_)
SortRules(rs) ==
    IF rs = <<>> THEN <<>>
    ELSE InsertRule(SortRules(SubSeq(rs, 1, Len(rs) - 1)), rs[Len(rs)])

\* a rules file: missing, text that is not JSON, bytes that are not UTF-8, or a
\* JSON document holding the rules doc (an array, or an object with "rules")
RuleFile(kind, doc) == [kind |-> kind, doc |-> doc]

\* RuleEngine._load_rules(path) : open(path, encoding="utf-8"), json.load, sorted.
\* FileNotFoundError and json.JSONDecodeError are caught and give [] ; the
\* UnicodeDecodeError of a file that is not UTF-8 is not caught
load_rules(file) ==
    CASE file.kind = "missing" -> Ok(<<>>)
      [] file.kind = "malformed" -> Ok(<<>>)
      [] file.kind = "undecodable" -> Raised
      [] OTHER -> Ok(SortRules(file.doc))

\* RuleEngine._matches_rule
matches_rule(event, rule) ==
    LET match_cond == rule.match
        tw == match_cond.time_window
        hour == HourOf(event.parsed_timestamp)
        start == IF "start_hour" \in tw.keys THEN tw.start_hour ELSE 0
        end == IF "end_hour" \in tw.keys THEN tw.end_hour ELSE 24
    IN /\ "event_type" \in match_cond.keys => event.event_type \in match_cond.event_type
       /\ "priority_hint" \in match_cond.keys => event.priority_hint \in match_cond.priority_hint
       /\ "channel" \in match_cond.keys => event.channel \in match_cond.channel
       /\ "source" \in match_cond.keys => event.source \in match_cond.source
       /\ "time_window" \in match_cond.keys =>
              IF start > end THEN hour >= start \/ hour < end
              ELSE start <= hour /\ hour < end

\* RuleEngine.match : the matching rules in the order of self.rules
RECURSIVE rule_match(_, _)
rule_match(event, rs) ==
    IF rs = <<>> THEN <<>>
    ELSE IF matches_rule(event, Head(rs))
         THEN <<Head(rs)>> \o rule_match(event, Tail(rs))
         ELSE rule_match(event, Tail(rs))

RuleResult(decision, code, rule_id, reason) ==
    [decision |-> decision, explanation_code |-> code, matched_rule_id |-> rule_id,
     reason |-> reason]

\* a loop that tests every downgrade against the caller's decision
RECURSIVE ApplyFromCallerDecision(_, _, _, _, _, _, _)
ApplyFromCallerDecision(event, matched, i, current_decision, result, store, clock) ==
    IF i > Len(matched) THEN result
    ELSE LET rule == matched[i]
             action == rule.action
             rule_id == RuleId(rule)
             dg == action.downgrade
             fires == "downgrade" \in action.keys /\ current_decision \in DOMAIN dg
             result2 == IF fires
                        THEN RuleResult(dg[current_decision], "RULE_OVERRIDE", rule_id, "rule")
                        ELSE result
             count == count_event_type_today(store, event.user_id, event.event_type, clock)
         IN IF "force_decision" \in action.keys
            THEN RuleResult(action.force_decision, "RULE_OVERRIDE", rule_id, "rule")
            ELSE IF "limit_per_day" \in action.keys /\ count >= action.limit_per_day
            THEN RuleResult("NEVER", "RULE_OVERRIDE", rule_id, "rule")
            ELSE ApplyFromCallerDecision(event, matched, i + 1, current_decision, result2,
                                         store, clock)

\* the loop of RuleEngine.apply_actions from the i-th matched rule on
RECURSIVE ApplyFrom(_, _, _, _, _, _, _)
ApplyFrom(event, matched, i, current_decision, result, store, clock) ==
    IF i > Len(matched) THEN result
    ELSE LET rule == matched[i]
             action == rule.action
             rule_id == RuleId(rule)
             dg == action.downgrade
             fires == "downgrade" \in action.keys /\ current_decision \in DOMAIN dg
             result2 == IF fires
                        THEN RuleResult(dg[current_decision], "RULE_OVERRIDE", rule_id, "rule")
                        ELSE result
             current2 == IF fires THEN result2.decision ELSE current_decision
             count == count_event_type_today(store, event.user_id, event.event_type, clock)
         IN IF "force_decision" \in action.keys
            THEN RuleResult(action.force_decision, "RULE_OVERRIDE", rule_id, "rule")
            ELSE IF "limit_per_day" \in action.keys /\ count >= action.limit_per_day
            THEN RuleResult("NEVER", "RULE_OVERRIDE", rule_id, "rule")
            ELSE ApplyFrom(event, matched, i + 1, current2, result2, store, clock)

\* an apply_actions whose result carries RULE_OVERRIDE from the start
apply_actions_marked(event, matched_rules, current_decision, store, clock) ==
    ApplyFrom(event, matched_rules, 1, current_decision,
              RuleResult(current_decision, "RULE_OVERRIDE", NoneStr, NoneStr), store, clock)

\* RuleEngine.apply_actions
apply_actions(event, matched_rules, current_decision, store, clock) ==
    ApplyFrom(event, matched_rules, 1, current_decision,
              RuleResult(current_decision, NoneStr, NoneStr, NoneStr), store, clock)

(***************************************************************************)
(* scheduler.py                                                            *)
(***************************************************************************)
is_quiet_hour(hour) ==
    IF QUIET_HOUR_START > QUIET_HOUR_END
    THEN hour >= QUIET_HOUR_START \/ hour < QUIET_HOUR_END
    ELSE QUIET_HOUR_START <= hour /\ hour < QUIET_HOUR_END

next_morning(ts) == AtHour(PlusMinutes(ts, MinutesPerDay), QUIET_RESUME_HOUR)

\* a next working hour that takes today's DEFAULT_WORKING_HOUR up to and
\* including that hour
next_working_hour_inclusive(ts) ==
    IF HourOf(ts) <= DEFAULT_WORKING_HOUR
    THEN AtHour(ts, DEFAULT_WORKING_HOUR)
    ELSE AtHour(PlusMinutes(ts, MinutesPerDay), DEFAULT_WORKING_HOUR)

next_working_hour(ts) ==
    IF HourOf(ts) < DEFAULT_WORKING_HOUR
    THEN AtHour(ts, DEFAULT_WORKING_HOUR)
    ELSE AtHour(PlusMinutes(ts, MinutesPerDay), DEFAULT_WORKING_HOUR)

Scheduled(t) == [k |-> "time", t |-> t]
Expired == [k |-> "EXPIRED", t |-> NoneIso]
SchedRaised == [k |-> "raised", t |-> NoneIso]

\* an expiry check that also expires a scheduled time equal to expires_at
ExpiryCheckAtOrAfter(scheduled, expires_at) ==
    IF expires_at.k # "none"
    THEN IF ~Comparable(scheduled, expires_at) THEN SchedRaised
         ELSE IF Ge(scheduled, expires_at) THEN Expired
         ELSE Scheduled(IsoFormat(scheduled))
    ELSE Scheduled(IsoFormat(scheduled))

\* the expiry check of compute_scheduled_time : an ISO string, the sentinel
\* "EXPIRED", or the TypeError of comparing the scheduled time with an expires_at
\* of the other awareness
ExpiryCheck(scheduled, expires_at) ==
    IF expires_at.k # "none"
    THEN IF ~Comparable(scheduled, expires_at) THEN SchedRaised
         ELSE IF Gt(scheduled, expires_at) THEN Expired
         ELSE Scheduled(IsoFormat(scheduled))
    ELSE Scheduled(IsoFormat(scheduled))

\* a base time picked by the event type first and the code second
BaseScheduleTypeFirst(ts, event_type, explanation_code, frequency_count) ==
    IF event_type = "reminder"
    THEN next_working_hour(ts)
    ELSE IF explanation_code = "RULE_OVERRIDE"
    THEN IF is_quiet_hour(HourOf(ts)) THEN next_morning(ts)
         ELSE PlusMinutes(ts, 15)
    ELSE IF explanation_code = "FREQUENCY_LIMIT"
    THEN PlusMinutes(ts, BASE_BACKOFF_MINUTES * Max2(1, frequency_count - 3))
    ELSE PlusMinutes(ts, 15)

\* the base time compute_scheduled_time picks for a timestamp ts
BaseSchedule(ts, event_type, explanation_code, frequency_count) ==
    IF explanation_code = "RULE_OVERRIDE"
    THEN IF is_quiet_hour(HourOf(ts)) THEN next_morning(ts)
         ELSE PlusMinutes(ts, 15)
    ELSE IF explanation_code = "FREQUENCY_LIMIT"
    THEN PlusMinutes(ts, BASE_BACKOFF_MINUTES * Max2(1, frequency_count - 3))
    ELSE IF event_type = "reminder"
    THEN next_working_hour(ts)
    ELSE PlusMinutes(ts, 15)

compute_scheduled_time(event, explanation_code, frequency_count) ==
    ExpiryCheck(BaseSchedule(event.parsed_timestamp, event.event_type, explanation_code,
                             frequency_count),
                event.expires_at)

(***************************************************************************)
(* logger.py                                                               *)
(***************************************************************************)
\* the entry DecisionLogger.log builds and appends
LogEntry(event, decision, scheduled_time, explanation_code, reason, matched_rule_id) ==
    [user_id |-> event.user_id, event_id |-> event.event_id,
     event_type |-> event.event_type, decision |-> decision,
     scheduled_time |-> scheduled_time, timestamp |-> event.timestamp,
     explanation_code |-> explanation_code, reason |-> reason,
     matched_rule_id |-> matched_rule_id]

\* what process_event hands back: a record, or an exception
Returned(decision, scheduled_time, explanation_code, reason, matched_rule_id) ==
    [k |-> "returned", decision |-> decision, scheduled_time |-> scheduled_time,
     explanation_code |-> explanation_code, reason |-> reason,
     matched_rule_id |-> matched_rule_id]
RaisedOut ==
    [k |-> "raised", decision |-> NoneStr, scheduled_time |-> NoneIso,
     explanation_code |-> NoneStr, reason |-> NoneStr, matched_rule_id |-> NoneStr]
NoOut ==
    [k |-> "none", decision |-> NoneStr, scheduled_time |-> NoneIso,
     explanation_code |-> NoneStr, reason |-> NoneStr, matched_rule_id |-> NoneStr]

\* DecisionLogger.get_output_record
get_output_record(log_entry) ==
    Returned(log_entry.decision, log_entry.scheduled_time, log_entry.explanation_code,
             log_entry.reason, log_entry.matched_rule_id)

(***************************************************************************)
(* duplicate_detector.py : DuplicateDetector.check                         *)
(***************************************************************************)
NoId == -1

DupResult(is_duplicate, duplicate_type, matched_event_id) ==
    [k |-> "ok", is_duplicate |-> is_duplicate, duplicate_type |-> duplicate_type,
     matched_event_id |-> matched_event_id]
DupRaised ==
    [k |-> "raised", is_duplicate |-> FALSE, duplicate_type |-> NoneStr,
     matched_event_id |-> NoId]

\* (title + " " + message).strip(), normalized
EventText(event) == normalize_text(Strip(event.title \o <<" ">> \o event.message))

\* the least index of a non-empty set of indices (0: none)
FirstOf(hits) == IF hits = {} THEN 0 ELSE CHOOSE i \in hits : \A j \in hits : i <= j

\* the first entry, in insertion order, whose ratio reaches the threshold (0: none)
FirstSimilar(event_text, entries) ==
    FirstOf({i \in 1..Len(entries) :
                AtLeastThreshold(levenshtein_ratio(event_text, entries[i].normalized_text))})

\* the result for the entry found by the loop over the past entries
SimilarResult(entries, hit) ==
    IF hit # 0 THEN DupResult(TRUE, "DUPLICATE_TEXT_SIMILAR", entries[hit].event_id)
    ELSE DupResult(FALSE, NoneStr, NoId)

\* step 2 of check for the normalized text and the text entries of the window
TextResult(event_text, past_entries) ==
    IF event_text = <<>> THEN DupResult(FALSE, NoneStr, NoId)
    ELSE IF past_entries.k = "raised" THEN DupRaised
    ELSE SimilarResult(past_entries.v, FirstSimilar(event_text, past_entries.v))

\* step 2 of check: near-duplicate text similarity
text_check(store, event, window, clock) ==
    TextResult(EventText(event), get_text_entries(store, event.user_id, window, clock))

\* a key match that reports the oldest matching entry instead of the newest
KeyResultOldest(matches, store, event, window, clock) ==
    IF matches.k = "raised" THEN DupRaised
    ELSE IF matches.v # <<>>
    THEN DupResult(TRUE, "DUPLICATE_DEDUPE_KEY", matches.v[1].event_id)
    ELSE text_check(store, event, window, clock)

\* step 1 of check for the entries of the window that carry the dedupe_key
KeyResult(matches, store, event, window, clock) ==
    IF matches.k = "raised" THEN DupRaised
    ELSE IF matches.v # <<>>
    THEN DupResult(TRUE, "DUPLICATE_DEDUPE_KEY", matches.v[Len(matches.v)].event_id)
    ELSE text_check(store, event, window, clock)

\* DuplicateDetector.check
dedup_check(store, event, clock) ==
    IF TruthyStr(event.dedupe_key)
    THEN KeyResult(get_dedupe_key_entries(store, event.user_id, event.dedupe_key,
                                          DEDUPE_WINDOW_MINUTES, clock),
                   store, event, DEDUPE_WINDOW_MINUTES, clock)
    ELSE text_check(store, event, DEDUPE_WINDOW_MINUTES, clock)

(***************************************************************************)
(* decision_engine.py                                                      *)
(***************************************************************************)
\* a record that keeps the text as received instead of its normalized form
HistoryRecordRawText(event, decision, explanation_code) ==
    [event_id |-> event.event_id, event_type |-> event.event_type,
     source |-> event.source, decision |-> decision,
     explanation_code |-> explanation_code, dedupe_key |-> event.dedupe_key,
     normalized_text |-> Strip(event.title \o <<" ">> \o event.message),
     parsed_timestamp |-> event.parsed_timestamp, timestamp |-> event.timestamp]

\* the record DecisionEngine._record_history adds
HistoryRecord(event, decision, explanation_code) ==
    [event_id |-> event.event_id, event_type |-> event.event_type,
     source |-> event.source, decision |-> decision,
     explanation_code |-> explanation_code, dedupe_key |-> event.dedupe_key,
     normalized_text |-> EventText(event),
     parsed_timestamp |-> event.parsed_timestamp, timestamp |-> event.timestamp]

\* DecisionEngine._record_history
record_history(store, event, decision, explanation_code) ==
    HistoryAdd(store, event.user_id, HistoryRecord(event, decision, explanation_code))

\* the locals current_decision, explanation_code, matched_rule_id, reason
Current(decision, code, rule_id, reason) ==
    [decision |-> decision, explanation_code |-> code, matched_rule_id |-> rule_id,
     reason |-> reason]

\* the rule result taken whenever a rule matched, whether or not it acted
TakeRuleUnchecked(llm_result, matched_rules, rule_result) ==
    IF matched_rules # <<>>
    THEN Current(rule_result.decision, rule_result.explanation_code,
                 rule_result.matched_rule_id, rule_result.reason)
    ELSE Current(llm_result.label, llm_result.explanation_code, NoneStr, llm_result.reason)

\* step 4, the override: the rule result is taken when a rule matched and acted
TakeRule(llm_result, matched_rules, rule_result) ==
    IF matched_rules # <<>> /\ TruthyStr(rule_result.explanation_code)
    THEN Current(rule_result.decision, rule_result.explanation_code,
                 rule_result.matched_rule_id, rule_result.reason)
    ELSE Current(llm_result.label, llm_result.explanation_code, NoneStr, llm_result.reason)

\* step 4: apply the matched rules to the classifier's label
ApplyRules(event, store, clock, llm_result, matched_rules) ==
    TakeRule(llm_result, matched_rules,
             apply_actions(event, matched_rules, llm_result.label, store, clock))

\* steps 3 and 4: classify, then let the matched rules override
RuleStage(event, rl, failure, store, clock) ==
    ApplyRules(event, store, clock, classify(event, failure), rule_match(event, rl))

\* a frequency stage that sends every decision to LATER at the limit
FrequencyStageAnyDecision(cur, freq_count) ==
    IF freq_count >= FREQUENCY_LIMIT
    THEN [cur EXCEPT !.decision = "LATER", !.explanation_code = "FREQUENCY_LIMIT",
                     !.reason = "frequency"]
    ELSE cur

\* a frequency stage that demotes only above the limit
FrequencyStageAboveLimit(cur, freq_count) ==
    IF freq_count > FREQUENCY_LIMIT
    THEN IF cur.decision = "NOW"
         THEN [cur EXCEPT !.decision = "LATER", !.explanation_code = "FREQUENCY_LIMIT",
                          !.reason = "frequency"]
         ELSE IF cur.decision = "LATER" /\ freq_count >= FREQUENCY_LIMIT + 2
         THEN [cur EXCEPT !.decision = "NEVER",
                          !.explanation_code = "FREQUENCY_SUPPRESSION",
                          !.reason = "frequency"]
         ELSE cur
    ELSE cur

\* a frequency stage that suppresses a LATER as soon as the limit is reached
FrequencyStageEarlySuppression(cur, freq_count) ==
    IF freq_count >= FREQUENCY_LIMIT
    THEN IF cur.decision = "NOW"
         THEN [cur EXCEPT !.decision = "LATER", !.explanation_code = "FREQUENCY_LIMIT",
                          !.reason = "frequency"]
         ELSE IF cur.decision = "LATER"
         THEN [cur EXCEPT !.decision = "NEVER",
                          !.explanation_code = "FREQUENCY_SUPPRESSION",
                          !.reason = "frequency"]
         ELSE cur
    ELSE cur

\* a frequency stage that also puts its suppression code on a NEVER
FrequencyStageRecodesNever(cur, freq_count) ==
    IF freq_count >= FREQUENCY_LIMIT
    THEN IF cur.decision = "NOW"
         THEN [cur EXCEPT !.decision = "LATER", !.explanation_code = "FREQUENCY_LIMIT",
                          !.reason = "frequency"]
         ELSE IF cur.decision \in {"LATER", "NEVER"} /\ freq_count >= FREQUENCY_LIMIT + 2
         THEN [cur EXCEPT !.decision = "NEVER",
                          !.explanation_code = "FREQUENCY_SUPPRESSION",
                          !.reason = "frequency"]
         ELSE cur
    ELSE cur

\* step 5: frequency / alert fatigue
FrequencyStage(cur, freq_count) ==
    IF freq_count >= FREQUENCY_LIMIT
    THEN IF cur.decision = "NOW"
         THEN [cur EXCEPT !.decision = "LATER", !.explanation_code = "FREQUENCY_LIMIT",
                          !.reason = "frequency"]
         ELSE IF cur.decision = "LATER" /\ freq_count >= FREQUENCY_LIMIT + 2
         THEN [cur EXCEPT !.decision = "NEVER",
                          !.explanation_code = "FREQUENCY_SUPPRESSION",
                          !.reason = "frequency"]
         ELSE cur
    ELSE cur

\* a noise stage that demotes only above the limit
NoiseStageAboveLimit(cur, urgent_count) ==
    IF urgent_count > NOISE_LIMIT_MAX_URGENT
    THEN [cur EXCEPT !.decision = "LATER", !.explanation_code = "CONFLICT_NOISE_LIMIT",
                     !.reason = "noise"]
    ELSE cur

\* a noise stage that lets every NOW through
NoiseStageOff(cur, urgent_count) == cur

\* step 6: conflict / noise resolution, for a decision that is NOW
NoiseStage(cur, urgent_count) ==
    IF urgent_count >= NOISE_LIMIT_MAX_URGENT
    THEN [cur EXCEPT !.decision = "LATER", !.explanation_code = "CONFLICT_NOISE_LIMIT",
                     !.reason = "noise"]
    ELSE cur

\* the decision and scheduled time a stage leaves, or the exception it raised
Staged(cur, scheduled_time) == [k |-> "ok", cur |-> cur, scheduled_time |-> scheduled_time]
StageRaised(cur) == [k |-> "raised", cur |-> cur, scheduled_time |-> NoneIso]

\* an expired outcome that takes the code EXPIRED but keeps its decision
ScheduleStageKeepsDecision(cur, sched) ==
    IF sched.k = "raised" THEN StageRaised(cur)
    ELSE IF sched.k = "EXPIRED"
    THEN Staged([cur EXCEPT !.explanation_code = "EXPIRED", !.reason = "expired"], NoneIso)
    ELSE Staged(cur, sched.t)

\* step 7: schedule; sched is what compute_scheduled_time returned
ScheduleStage(cur, sched) ==
    IF sched.k = "raised" THEN StageRaised(cur)
    ELSE IF sched.k = "EXPIRED"
    THEN Staged([cur EXCEPT !.decision = "NEVER", !.explanation_code = "EXPIRED",
                            !.reason = "expired"],
                NoneIso)
    ELSE Staged(cur, sched.t)

\* the result of a call: what it hands back and the engine state it leaves
Outcome(o, store, lg, fresh) == [out |-> o, history |-> store, logs |-> lg, next_id |-> fresh]

\* a validation failure that is written to the decision log like any other outcome
ValidationFailureLogged(store, lg, fresh) ==
    Outcome(Returned("NEVER", NoneIso, "VALIDATION_ERROR", "validation", NoneStr),
            store,
            Append(lg, LogEntry(NoEvent, "NEVER", NoneIso, "VALIDATION_ERROR", "validation",
                                NoneStr)),
            fresh)

\* step 1, the except branch
ValidationFailure(store, lg, fresh) ==
    Outcome(Returned("NEVER", NoneIso, "VALIDATION_ERROR", "validation", NoneStr),
            store, lg, fresh)

\* step 8 (and the tail of step 2): log, record, return
LogAndRecord(store, lg, fresh, event, cur, scheduled_time) ==
    LET log_entry == LogEntry(event, cur.decision, scheduled_time, cur.explanation_code,
                              cur.reason, cur.matched_rule_id)
    IN Outcome(get_output_record(log_entry),
               record_history(store, event, cur.decision, cur.explanation_code),
               Append(lg, log_entry), fresh)

\* the reason of a duplicate slices matched_event_id, which raises TypeError when
\* that id is a number: an event_id is a string (a uuid4 or a supplied string),
\* modelled by a number above 0, or a supplied number, modelled by one below NoId
ReasonRaises(dup_result) == dup_result.matched_event_id < NoId

\* a duplicate branch that logs and returns but writes no history record
DuplicateOutcomeUnrecorded(store, lg, fresh, event, dup_result) ==
    IF ReasonRaises(dup_result) THEN Outcome(RaisedOut, store, lg, fresh)
    ELSE Outcome(Returned("NEVER", NoneIso, dup_result.duplicate_type, "duplicate", NoneStr),
                 store,
                 Append(lg, LogEntry(event, "NEVER", NoneIso, dup_result.duplicate_type,
                                     "duplicate", NoneStr)),
                 fresh)

\* step 2, the duplicate branch
DuplicateOutcome(store, lg, fresh, event, dup_result) ==
    IF ReasonRaises(dup_result) THEN Outcome(RaisedOut, store, lg, fresh)
    ELSE LogAndRecord(store, lg, fresh, event,
                      Current("NEVER", dup_result.duplicate_type, NoneStr, "duplicate"),
                      NoneIso)

\* step 7 for the decision cur6 that step 6 left
Schedule(event, cur6, freq_count) ==
    IF cur6.decision = "LATER"
    THEN ScheduleStage(cur6, compute_scheduled_time(event, cur6.explanation_code,
                                                    freq_count))
    ELSE Staged(cur6, NoneIso)

\* steps 6 and 7 once the recent urgent events are counted
AfterUrgentCount(event, cur5, freq_count, urgent) ==
    IF urgent.k = "raised" THEN StageRaised(cur5)
    ELSE Schedule(event, NoiseStage(cur5, urgent.v), freq_count)

\* steps 6 and 7 for the decision cur5 that step 5 left
NoiseAndSchedule(store, clock, event, cur5, freq_count) ==
    IF cur5.decision = "NOW"
    THEN AfterUrgentCount(event, cur5, freq_count,
                          count_urgent_by_source_or_type(store, event.user_id,
                                                         event.event_type, event.source,
                                                         NOISE_LIMIT_WINDOW_MINUTES, clock))
    ELSE Schedule(event, cur5, freq_count)

\* step 8 for what steps 6 and 7 left
Finish(store, lg, fresh, event, fin) ==
    IF fin.k = "raised" THEN Outcome(RaisedOut, store, lg, fresh)
    ELSE LogAndRecord(store, lg, fresh, event, fin.cur, fin.scheduled_time)

\* steps 5 to 8 with a frequency stage that leaves rule decisions alone
AfterFrequencyCountRulesExempt(store, lg, fresh, clock, event, cur, freq) ==
    IF freq.k = "raised" THEN Outcome(RaisedOut, store, lg, fresh)
    ELSE Finish(store, lg, fresh, event,
                NoiseAndSchedule(store, clock, event,
                                 IF cur.explanation_code = "RULE_OVERRIDE" THEN cur
                                 ELSE FrequencyStage(cur, freq.v),
                                 freq.v))

\* steps 5 to 8 once the user's recent events are counted
AfterFrequencyCount(store, lg, fresh, clock, event, cur, freq) ==
    IF freq.k = "raised" THEN Outcome(RaisedOut, store, lg, fresh)
    ELSE Finish(store, lg, fresh, event,
                NoiseAndSchedule(store, clock, event, FrequencyStage(cur, freq.v), freq.v))

\* steps 5 to 8 with the frequency counted from the decision log instead of the
\* history store
AfterRulesCountingLog(store, lg, fresh, clock, event, cur) ==
    AfterFrequencyCount(store, lg, fresh, clock, event, cur,
                        Ok(CountIn(lg, {e \in Range(lg) : e.user_id = event.user_id})))

\* steps 5 to 8 for the decision cur the rules left
AfterRules(store, lg, fresh, clock, event, cur) ==
    AfterFrequencyCount(store, lg, fresh, clock, event, cur,
                        count_in_window(store, event.user_id, FREQUENCY_WINDOW_MINUTES,
                                        clock))

\* steps 2 to 8 for the result of the duplicate check
AfterDedup(store, lg, rl, failure, clock, fresh, event, dup_result) ==
    IF dup_result.k = "raised" THEN Outcome(RaisedOut, store, lg, fresh)
    ELSE IF dup_result.is_duplicate
    THEN DuplicateOutcome(store, lg, fresh, event, dup_result)
    ELSE AfterRules(store, lg, fresh, clock, event,
                    RuleStage(event, rl, failure, store, clock))

\* steps 1 to 8 for what validate_event made of the event; a uuid4 is drawn
\* when the event carries no event_id
AfterValidation(store, lg, rl, failure, clock, fresh, raw_event, v) ==
    IF v.k = "ValidationError" THEN ValidationFailure(store, lg, fresh)
    ELSE IF v.k = "TypeError" THEN Outcome(RaisedOut, store, lg, fresh)
    ELSE AfterDedup(store, lg, rl, failure, clock,
                    IF "event_id" \in raw_event.keys THEN fresh ELSE fresh + 1,
                    v.ev, dedup_check(store, v.ev, clock))

\* DecisionEngine.process_event(raw_event) on the engine state (store, lg, rl,
\* failure) at wall-clock time clock; fresh is the next unused uuid4
process_event(store, lg, rl, failure, clock, fresh, raw_event) ==
    AfterValidation(store, lg, rl, failure, clock, fresh, raw_event,
                    validate_event(raw_event, fresh))

(***************************************************************************)
(* The inputs explored                                                     *)
(***************************************************************************)
\* bounds of the exploration: a run is a warm-up of at most WarmUpCalls calls with
\* an event of FillerEvents (enough of them to cross every fatigue threshold),
\* then at most MaxSteps steps of any kind
MaxSteps == 2
WarmUpCalls == FREQUENCY_LIMIT + 2
TickMinutes == 11

\* the wall clock at construction: day 10, 10:00 UTC
T0 == 15000

UserIds == {"u1", "u2"}

AllKeys == {"user_id", "event_type", "title", "message", "timestamp", "channel",
            "source", "priority_hint", "dedupe_key", "expires_at", "event_id"}

\* a mapping with the five required fields
BaseEvent(user_id, event_type, message, timestamp) ==
    [isdict |-> TRUE,
     keys |-> {"user_id", "event_type", "message", "timestamp", "channel"},
     user_id |-> user_id, event_type |-> event_type, title |-> <<>>,
     message |-> message, timestamp |-> timestamp, channel |-> "push",
     source |-> "", priority_hint |-> NoneStr, dedupe_key |-> NoneStr,
     expires_at |-> NoneIso, event_id |-> 0]

\* event with the field f set to v
With(event, f, v) == [event EXCEPT !.keys = @ \cup {f}, ![f] = v]
\* event without the field f
Without(event, f) == [event EXCEPT !.keys = @ \ {f}]

\* an alert without word characters: classified NOW, never a near-duplicate
AlertBang == BaseEvent("u1", "alert", TextBang, Iso(T0, "+00:00"))
AlertHi == BaseEvent("u1", "alert", TextHi, Iso(T0, "Z"))
Keyed == With(BaseEvent("u1", "message", TextOtp, Iso(T0, "Z")), "dedupe_key", "k1")
KeyedOld == With(BaseEvent("u1", "message", TextOtp, Iso(T0 - 30, "Z")), "dedupe_key", "k1")
Reminder == BaseEvent("u1", "reminder", TextHiBang, Iso(T0, "Z"))
ReminderExpiring == With(BaseEvent("u1", "reminder", TextHiBang, Iso(T0, "Z")),
                         "expires_at", Iso(T0 + 5, "Z"))
ReminderNaiveExpiry == With(BaseEvent("u2", "reminder", TextHiBang, Iso(T0, "Z")),
                            "expires_at", Iso(T0 + 5, ""))
Promo == With(BaseEvent("u2", "promotion", TextSale, Iso(T0, "Z")), "priority_hint", "low")
NaiveAlert == BaseEvent("u2", "alert", TextHi, Iso(T0, ""))
BadType == BaseEvent("u1", "bogus", TextHi, Iso(T0, "Z"))
BadTimestamp == BaseEvent("u1", "alert", TextHi, BadIso)
NoChannel == Without(BaseEvent("u1", "alert", TextHi, Iso(T0, "Z")), "channel")
ListType == BaseEvent("u1", ListValue, TextHi, Iso(T0, "Z"))
NumberId == With(AlertHi, "event_id", -7)
NonDict == [BaseEvent("", "", <<>>, NoneIso) EXCEPT !.isdict = FALSE, !.keys = {}]

FillerEvents == {AlertBang}
BroadEvents == {AlertHi, Keyed, KeyedOld, Reminder, ReminderExpiring, ReminderNaiveExpiry,
                Promo, NaiveAlert, BadType, BadTimestamp, NoChannel, ListType, NumberId,
                NonDict}
RawEvents == FillerEvents \cup BroadEvents

\* rules documents
NoMatch ==
    [keys |-> {}, event_type |-> {}, priority_hint |-> {}, channel |-> {}, source |-> {},
     time_window |-> [keys |-> {}, start_hour |-> 0, end_hour |-> 24]]
NoAction ==
    [keys |-> {}, force_decision |-> NoneStr, downgrade |-> <<>>, limit_per_day |-> 0]
Rule(id, priority, match, action) ==
    [keys |-> {"id", "priority", "match", "action"}, id |-> id, priority |-> priority,
     match |-> match, action |-> action]

MatchTypes(types) == [NoMatch EXCEPT !.keys = {"event_type"}, !.event_type = types]
Force(label) == [NoAction EXCEPT !.keys = {"force_decision"}, !.force_decision = label]
Downgrade(map) == [NoAction EXCEPT !.keys = {"downgrade"}, !.downgrade = map]
LimitPerDay(n) == [NoAction EXCEPT !.keys = {"limit_per_day"}, !.limit_per_day = n]

DocEmpty == <<>>
DocOverrides ==
    <<Rule("r_down", 1, MatchTypes({"alert", "message"}), Downgrade("NOW" :> "LATER")),
      Rule("r_promo", 5, MatchTypes({"promotion"}), Force("LATER")),
      Rule("r_cap", 3, MatchTypes({"reminder"}), LimitPerDay(1))>>
DocUnknownLabel ==
    <<Rule("r_any", 1, NoMatch, Force("SOMETIMES"))>>
RuleDocs == {DocEmpty, DocOverrides, DocUnknownLabel}

(***************************************************************************)
(* The engine as a state machine: one action per operation                 *)
(***************************************************************************)
NoRaw == NonDict

\* DecisionEngine.__init__ with no rules, at time T0
InitEngine ==
    /\ history = [u \in UserIds |-> <<>>]
    /\ logs = <<>>
    /\ rules = <<>>
    /\ simulate_failure = FALSE
    /\ now = T0
    /\ next_id = 1
    /\ op = "init"
    /\ raw = NoRaw
    /\ out = NoOut
    /\ nproc = 0
    /\ nwarm = 0
    /\ nsteps = 0
    /\ replay = FALSE

Init ==
    /\ InitEngine
    /\ th = <<>>
    /\ base = <<>>
    /\ adm = <<>>

\* a call with a filler event before any other step belongs to the warm-up
IsWarmUp(raw_event) == raw_event \in FillerEvents /\ nsteps = 0 /\ nwarm < WarmUpCalls

\* engine.process_event(raw_event), called while no other call is in flight
Call(raw_event) ==
    /\ \E r \in {process_event(history, logs, rules, simulate_failure, now, next_id,
                               raw_event)} :
          /\ history' = r.history
          /\ logs' = r.logs
          /\ next_id' = r.next_id
          /\ out' = r.out
    /\ raw' = raw_event
    /\ replay' = (op = "process_event" /\ raw_event = raw)
    /\ op' = "process_event"
    /\ nproc' = nproc + 1
    /\ UNCHANGED <<rules, simulate_failure, now, th, base, adm>>

ProcessEvent(raw_event) ==
    /\ IsWarmUp(raw_event) \/ nsteps < MaxSteps
    /\ Call(raw_event)
    /\ nwarm' = IF IsWarmUp(raw_event) THEN nwarm + 1 ELSE nwarm
    /\ nsteps' = IF IsWarmUp(raw_event) THEN nsteps ELSE nsteps + 1

\* the wall clock advances
Tick ==
    /\ nsteps < MaxSteps
    /\ now' = now + TickMinutes
    /\ nsteps' = nsteps + 1
    /\ UNCHANGED <<history, logs, rules, simulate_failure, next_id, op, raw, out,
                   nproc, nwarm, th, base, adm, replay>>

\* engine.set_llm_failure(enabled)
SetLlmFailure(enabled) ==
    /\ nsteps < MaxSteps
    /\ simulate_failure' = enabled
    /\ op' = "set_llm_failure"
    /\ nsteps' = nsteps + 1
    /\ UNCHANGED <<history, logs, rules, now, next_id, raw, out, nproc, nwarm,
                   th, base, adm, replay>>

\* engine.reload_rules(rules_data=doc)
ReloadRules(doc) ==
    /\ nsteps < MaxSteps
    /\ rules' = SortRules(doc)
    /\ op' = "reload_rules"
    /\ nsteps' = nsteps + 1
    /\ UNCHANGED <<history, logs, simulate_failure, now, next_id, raw, out, nproc,
                   nwarm, th, base, adm, replay>>

\* engine.reset()
Reset ==
    /\ nsteps < MaxSteps
    /\ history' = HistoryClear(history)
    /\ logs' = <<>>
    /\ op' = "reset"
    /\ nsteps' = nsteps + 1
    /\ UNCHANGED <<rules, simulate_failure, now, next_id, raw, out, nproc, nwarm,
                   th, base, adm, replay>>

Next ==
    \/ \E raw_event \in RawEvents : ProcessEvent(raw_event)
    \/ Tick
    \/ \E enabled \in BOOLEAN : SetLlmFailure(enabled)
    \/ \E doc \in RuleDocs : ReloadRules(doc)
    \/ Reset

Spec == Init /\ [][Next]_vars

(***************************************************************************)
(* Long runs of calls, enough to fill and turn over a user's ring          *)
(***************************************************************************)
MaxOthers == 1
RingCalls == HISTORY_BUFFER_SIZE + 3
RingEvents == FillerEvents \cup {Promo}

\* engine.process_event(raw_event); nwarm counts the calls with a filler event,
\* nsteps the others
RingCall(raw_event) ==
    /\ nproc < RingCalls
    /\ raw_event \in FillerEvents \/ nsteps < MaxOthers
    /\ Call(raw_event)
    /\ nwarm' = IF raw_event \in FillerEvents THEN nwarm + 1 ELSE nwarm
    /\ nsteps' = IF raw_event \in FillerEvents THEN nsteps ELSE nsteps + 1

NextRing == \E raw_event \in RingEvents : RingCall(raw_event)

SpecRing == Init /\ [][NextRing]_vars

(***************************************************************************)
(* Calls from two threads, and the operator's reset and reload_rules, with *)
(* no lock: a thread can be preempted between any two accesses to the      *)
(* engine's shared state.  A call reads the history in its duplicate       *)
(* check, the rules and the history in its rule stage, the history in its  *)
(* frequency stage and in its noise stage, then appends to the log, then   *)
(* to the history.                                                         *)
(***************************************************************************)
Threads == {1, 2}

NoCurrent == Current(NoneStr, NoneStr, NoneStr, NoneStr)
ThreadIdle ==
    [pc |-> "idle", raw |-> NoRaw, ev |-> NoEvent, cur |-> NoCurrent, freq |-> 0,
     scheduled_time |-> NoneIso, out |-> NoOut]
Started(raw_event) == [ThreadIdle EXCEPT !.pc = "check", !.raw = raw_event]
Finished(me, o) == [me EXCEPT !.pc = "done", !.out = o]

AdmIdle == [pc |-> "idle", doc |-> <<>>]
NoBase == [k |-> "none", history |-> [u \in UserIds |-> <<>>], logs |-> <<>>, rules |-> <<>>,
           next_id |-> 0]
Snapshot == [k |-> "base", history |-> history, logs |-> logs, rules |-> rules,
             next_id |-> next_id]

\* the events of the concurrent calls carry their own event_id
ConcKeyedA == With(Keyed, "event_id", 101)
ConcKeyedB == With(Keyed, "event_id", 102)
ConcAlertA == With(AlertBang, "event_id", 101)
ConcAlertB == With(AlertBang, "event_id", 102)
ConcEventsA == {ConcKeyedA, ConcAlertA}
ConcEventsB == {ConcKeyedB, ConcAlertB}

InitConc ==
    /\ InitEngine
    /\ th = [t \in Threads |-> ThreadIdle]
    /\ base = NoBase
    /\ adm = AdmIdle

InFlight == \E t \in Threads : th[t].pc \notin {"idle", "done"}

\* a sequential call before any thread starts
Seed(raw_event) ==
    /\ base = NoBase
    /\ ProcessEvent(raw_event)

\* the polling thread and a request handler both enter process_event
Fork(raw1, raw2) ==
    /\ base = NoBase
    /\ th' = [th EXCEPT ![1] = Started(raw1), ![2] = Started(raw2)]
    /\ base' = Snapshot
    /\ op' = "fork"
    /\ UNCHANGED <<history, logs, rules, simulate_failure, now, next_id, raw, out, nproc,
                   nwarm, nsteps, adm, replay>>

\* one thread enters process_event
Enter(raw1) ==
    /\ base = NoBase
    /\ th' = [th EXCEPT ![1] = Started(raw1)]
    /\ base' = Snapshot
    /\ op' = "enter"
    /\ UNCHANGED <<history, logs, rules, simulate_failure, now, next_id, raw, out, nproc,
                   nwarm, nsteps, adm, replay>>

\* the thread after step 2, for the result of the duplicate check
Checked(me, event, dup_result) ==
    IF dup_result.k = "raised" THEN Finished(me, RaisedOut)
    ELSE IF dup_result.is_duplicate /\ ReasonRaises(dup_result)
    THEN Finished(me, RaisedOut)
    ELSE IF dup_result.is_duplicate
    THEN [me EXCEPT !.pc = "log", !.ev = event,
                    !.cur = Current("NEVER", dup_result.duplicate_type, NoneStr,
                                    "duplicate")]
    ELSE [me EXCEPT !.pc = "decide", !.ev = event]

\* steps 1 and 2: validate, check for a duplicate
ThCheck(t) ==
    /\ th[t].pc = "check"
    /\ \E v \in {validate_event(th[t].raw, next_id)} :
          /\ next_id' = IF v.k = "ok" /\ "event_id" \notin th[t].raw.keys
                        THEN next_id + 1 ELSE next_id
          /\ th' = [th EXCEPT ![t] =
                       IF v.k = "ValidationError"
                       THEN Finished(@, ValidationFailure(history, logs, next_id).out)
                       ELSE IF v.k = "TypeError" THEN Finished(@, RaisedOut)
                       ELSE Checked(@, v.ev, dedup_check(history, v.ev, now))]
    /\ UNCHANGED <<history, logs, rules, simulate_failure, now, op, raw, out, nproc,
                   nwarm, nsteps, base, adm, replay>>

\* steps 3 and 4: classify, match and apply the rules
ThDecide(t) ==
    LET me == th[t]
    IN /\ me.pc = "decide"
       /\ th' = [th EXCEPT ![t] =
                    [me EXCEPT !.pc = "frequency",
                               !.cur = RuleStage(me.ev, rules, simulate_failure, history,
                                                 now)]]
       /\ UNCHANGED <<history, logs, rules, simulate_failure, now, next_id, op, raw, out,
                      nproc, nwarm, nsteps, base, adm, replay>>

\* step 5: count the user's recent events
ThFrequency(t) ==
    /\ th[t].pc = "frequency"
    /\ \E freq \in {count_in_window(history, th[t].ev.user_id, FREQUENCY_WINDOW_MINUTES,
                                     now)} :
          th' = [th EXCEPT ![t] =
                    IF freq.k = "raised" THEN Finished(@, RaisedOut)
                    ELSE [@ EXCEPT !.pc = "noise", !.freq = freq.v,
                                   !.cur = FrequencyStage(th[t].cur, freq.v)]]
    /\ UNCHANGED <<history, logs, rules, simulate_failure, now, next_id, op, raw, out,
                   nproc, nwarm, nsteps, base, adm, replay>>

\* steps 6 and 7: count the recent urgent events, schedule
ThNoise(t) ==
    /\ th[t].pc = "noise"
    /\ \E fin \in {NoiseAndSchedule(history, now, th[t].ev, th[t].cur, th[t].freq)} :
          th' = [th EXCEPT ![t] =
                    IF fin.k = "raised" THEN Finished(@, RaisedOut)
                    ELSE [@ EXCEPT !.pc = "log", !.cur = fin.cur,
                                   !.scheduled_time = fin.scheduled_time]]
    /\ UNCHANGED <<history, logs, rules, simulate_failure, now, next_id, op, raw, out,
                   nproc, nwarm, nsteps, base, adm, replay>>

\* step 8, first half: logger.log
ThLog(t) ==
    LET me == th[t]
        log_entry == LogEntry(me.ev, me.cur.decision, me.scheduled_time,
                              me.cur.explanation_code, me.cur.reason,
                              me.cur.matched_rule_id)
    IN /\ me.pc = "log"
       /\ logs' = Append(logs, log_entry)
       /\ th' = [th EXCEPT ![t] = [me EXCEPT !.pc = "record",
                                             !.out = get_output_record(log_entry)]]
       /\ UNCHANGED <<history, rules, simulate_failure, now, next_id, op, raw, out,
                      nproc, nwarm, nsteps, base, adm, replay>>

\* step 8, second half: _record_history, return
ThRecord(t) ==
    LET me == th[t]
    IN /\ me.pc = "record"
       /\ history' = record_history(history, me.ev, me.cur.decision,
                                    me.cur.explanation_code)
       /\ th' = [th EXCEPT ![t] = [me EXCEPT !.pc = "done"]]
       /\ UNCHANGED <<logs, rules, simulate_failure, now, next_id, op, raw, out,
                      nproc, nwarm, nsteps, base, adm, replay>>

\* engine.reset(), first statement: self.history.clear()
ResetClearHistory ==
    /\ InFlight
    /\ adm.pc = "idle"
    /\ history' = HistoryClear(history)
    /\ adm' = [adm EXCEPT !.pc = "reset_logs"]
    /\ UNCHANGED <<logs, rules, simulate_failure, now, next_id, op, raw, out,
                   nproc, nwarm, nsteps, th, base, replay>>

\* engine.reset(), second statement: self.logger.clear()
ResetClearLogs ==
    /\ adm.pc = "reset_logs"
    /\ logs' = <<>>
    /\ adm' = [adm EXCEPT !.pc = "reset_done"]
    /\ UNCHANGED <<history, rules, simulate_failure, now, next_id, op, raw, out,
                   nproc, nwarm, nsteps, th, base, replay>>

\* engine.reload_rules(rules_data=doc): one assignment to self.rules.rules
ReloadInFlight(doc) ==
    /\ InFlight
    /\ adm.pc = "idle"
    /\ rules' = SortRules(doc)
    /\ adm' = [pc |-> "reload_done", doc |-> doc]
    /\ UNCHANGED <<history, logs, simulate_failure, now, next_id, op, raw, out,
                   nproc, nwarm, nsteps, th, base, replay>>

NextConc ==
    \/ \E raw_event \in FillerEvents : Seed(raw_event)
    \/ \E raw1 \in ConcEventsA, raw2 \in ConcEventsB : Fork(raw1, raw2)
    \/ \E raw1 \in ConcEventsA : Enter(raw1)
    \/ \E t \in Threads : ThCheck(t)
    \/ \E t \in Threads : ThDecide(t)
    \/ \E t \in Threads : ThFrequency(t)
    \/ \E t \in Threads : ThNoise(t)
    \/ \E t \in Threads : ThLog(t)
    \/ \E t \in Threads : ThRecord(t)
    \/ ResetClearHistory
    \/ ResetClearLogs
    \/ \E doc \in RuleDocs : ReloadInFlight(doc)

SpecConc == InitConc /\ [][NextConc]_vars

(***************************************************************************)
(* Properties of the sequential engine (Spec)                              *)
(***************************************************************************)
\* the transition is a call of process_event
IsCall == nproc' = nproc + 1
\* what validate_event makes of the event of that call
Validated == validate_event(raw', next_id)

\* C1: process_event never raises; every call returns an output record.
C1_NeverRaises == op = "process_event" => out.k = "returned"

\* C2: when validation fails, the call returns NEVER / VALIDATION_ERROR with no
\* scheduled time and no matched rule, and leaves every history and the
\* decision log as they were.
C2_ValidationFailureStopsPipeline ==
    [][(IsCall /\ Validated.k = "ValidationError") =>
          /\ out'.k = "returned"
          /\ out'.decision = "NEVER"
          /\ out'.explanation_code = "VALIDATION_ERROR"
          /\ out'.scheduled_time = NoneIso
          /\ out'.matched_rule_id = NoneStr
          /\ history' = history
          /\ logs' = logs]_vars
C2_Witness ==
    /\ op = "process_event"
    /\ out.k = "returned"
    /\ out.explanation_code = "VALIDATION_ERROR"
    /\ history["u1"] # <<>>
    /\ logs # <<>>

\* C3: every call whose event passes validation appends exactly one record to
\* the history of the event's user, none to any other user's, and the record
\* carries the decision and explanation code the call returns.
C3_OneRecordPerValidatedEvent ==
    [][(IsCall /\ Validated.k = "ok") =>
          LET u == Validated.ev.user_id
              before == history[u]
              after == history'[u]
              kept == IF Len(before) < HISTORY_BUFFER_SIZE THEN before ELSE Tail(before)
          IN /\ \A w \in UserIds \ {u} : history'[w] = history[w]
             /\ Len(after) = Len(kept) + 1
             /\ SubSeq(after, 1, Len(kept)) = kept
             /\ out'.k = "returned"
             /\ after[Len(after)].decision = out'.decision
             /\ after[Len(after)].explanation_code = out'.explanation_code]_vars

\* C4: the decision of every output record is one of NOW, LATER, NEVER, also
\* when a loaded rule supplies the forced decision or the downgrade target.
C4_DecisionInDomain ==
    (op = "process_event" /\ out.k = "returned") => out.decision \in {"NOW", "LATER", "NEVER"}

\* C5: in every output record, scheduled_time is non-null if and only if the
\* decision is LATER.
C5_ScheduledIffLater ==
    (op = "process_event" /\ out.k = "returned") =>
        (out.scheduled_time # NoneIso <=> out.decision = "LATER")
\* a demoted LATER with its time, after an expired NEVER was seen to carry none
C5_Witness ==
    /\ op = "process_event"
    /\ out.k = "returned"
    /\ out.decision = "LATER"
    /\ out.explanation_code \in {"FREQUENCY_LIMIT", "CONFLICT_NOISE_LIMIT"}
    /\ out.scheduled_time.k = "iso"
    /\ \E i \in 1..Len(logs) : logs[i].explanation_code = "EXPIRED"

\* C7: the explanation code of every output record is non-null and one of the
\* eleven codes of the closed set.
EXPLANATION_CODES ==
    {"VALIDATION_ERROR", "DUPLICATE_DEDUPE_KEY", "DUPLICATE_TEXT_SIMILAR", "LLM_DECISION",
     "URGENT_KEYWORD", "FALLBACK", "RULE_OVERRIDE", "FREQUENCY_LIMIT",
     "FREQUENCY_SUPPRESSION", "CONFLICT_NOISE_LIMIT", "EXPIRED"}
C7_CodeInClosedSet ==
    (op = "process_event" /\ out.k = "returned") => out.explanation_code \in EXPLANATION_CODES
\* a call that matched a rule which did not act, and so kept the classifier's code
C7_Witness ==
    /\ op = "process_event"
    /\ out.k = "returned"
    /\ rule_match(validate_event(raw, 0).ev, rules) # <<>>
    /\ out.explanation_code \in {"LLM_DECISION", "URGENT_KEYWORD", "FALLBACK"}
\* C10 as stated: replaying the same valid event twice in sequence yields a
\* duplicate outcome for the second call, DUPLICATE_DEDUPE_KEY when the event
\* has a dedupe_key and DUPLICATE_TEXT_SIMILAR otherwise, whatever its timestamp
\* and text.
DuplicateOutcomeFor(o, event) ==
    /\ o.k = "returned"
    /\ o.decision = "NEVER"
    /\ o.explanation_code = IF TruthyStr(event.dedupe_key) THEN "DUPLICATE_DEDUPE_KEY"
                            ELSE "DUPLICATE_TEXT_SIMILAR"
C10_ReplayIsDuplicate ==
    (op = "process_event" /\ replay /\ validate_event(raw, 0).k = "ok") =>
        DuplicateOutcomeFor(out, validate_event(raw, 0).ev)

\* C10 as amended: the second call yields that duplicate outcome when the
\* event's timestamp carries a UTC offset and is no older than
\* DEDUPE_WINDOW_MINUTES at the second call, its expires_at (if any) carries a
\* UTC offset, its event_id (if any) is a string, every record of the user's
\* history has a timestamp with UTC offset and a string event_id, and the event
\* has a non-empty dedupe_key or a non-empty normalized text.
ReplayCovered(event) ==
    /\ event.parsed_timestamp.aware
    /\ Utc(event.parsed_timestamp) >= now - DEDUPE_WINDOW_MINUTES
    /\ event.expires_at.k = "none" \/ event.expires_at.aware
    /\ event.event_id > 0
    /\ \A i \in 1..Len(history[event.user_id]) :
          /\ history[event.user_id][i].parsed_timestamp.aware
          /\ history[event.user_id][i].event_id > 0
    /\ TruthyStr(event.dedupe_key) \/ EventText(event) # <<>>
C10_ReplayInWindowIsDuplicate ==
    [][(IsCall /\ op = "process_event" /\ raw' = raw /\ Validated.k = "ok"
          /\ ReplayCovered(Validated.ev)) =>
          DuplicateOutcomeFor(out', Validated.ev)]_vars
\* a replayed event without dedupe_key, found by its text
C10_Witness ==
    /\ op = "process_event"
    /\ replay
    /\ out.k = "returned"
    /\ out.explanation_code = "DUPLICATE_TEXT_SIMILAR"
    /\ raw = Reminder

(***************************************************************************)
(* Properties of the ring (SpecRing)                                       *)
(***************************************************************************)
\* C6: each user's history holds at most HISTORY_BUFFER_SIZE records in
\* insertion order; an addition to a full ring discards exactly the oldest
\* record of that user and keeps all others.
C6_RingBoundedOldestEvicted ==
    /\ [](\A u \in UserIds : Len(history[u]) <= HISTORY_BUFFER_SIZE)
    /\ [][\A u \in UserIds :
            history'[u] # history[u] =>
                LET kept == IF Len(history[u]) < HISTORY_BUFFER_SIZE THEN history[u]
                            ELSE Tail(history[u])
                IN /\ Len(history'[u]) = Len(kept) + 1
                   /\ SubSeq(history'[u], 1, Len(kept)) = kept]_vars
\* a full ring that has turned over twice
C6_Witness ==
    /\ Len(history["u1"]) = HISTORY_BUFFER_SIZE
    /\ nwarm = HISTORY_BUFFER_SIZE + 2
    /\ history["u1"][1].event_id > 2
(***************************************************************************)
(* Properties of the concurrent engine (SpecConc)                          *)
(***************************************************************************)
\* the two calls one after the other, from the state in which they began
InOrder(first, second) ==
    LET r1 == process_event(base.history, base.logs, base.rules, simulate_failure, now,
                            base.next_id, first)
        r2 == process_event(r1.history, r1.logs, base.rules, simulate_failure, now,
                            r1.next_id, second)
    IN [first |-> r1.out, second |-> r2.out, history |-> r2.history]

\* C8: two concurrent calls are atomic with respect to the history store: their
\* outputs and the resulting history are those of one of the two sequential
\* orders of the calls.
C8_ConcurrentCallsLinearizable ==
    (th[1].pc = "done" /\ th[2].pc = "done" /\ adm.pc = "idle") =>
        \/ [first |-> th[1].out, second |-> th[2].out, history |-> history]
              = InOrder(th[1].raw, th[2].raw)
        \/ [first |-> th[2].out, second |-> th[1].out, history |-> history]
              = InOrder(th[2].raw, th[1].raw)

\* the call, then the operator's reset or reload
CallThenAdm ==
    LET r == process_event(base.history, base.logs, base.rules, simulate_failure, now,
                           base.next_id, th[1].raw)
    IN [out |-> r.out,
        history |-> IF adm.pc = "reset_done" THEN HistoryClear(r.history) ELSE r.history]
\* the operator's reset or reload, then the call
AdmThenCall ==
    LET r == IF adm.pc = "reset_done"
             THEN process_event(HistoryClear(base.history), <<>>, base.rules,
                                simulate_failure, now, base.next_id, th[1].raw)
             ELSE process_event(base.history, base.logs, SortRules(adm.doc),
                                simulate_failure, now, base.next_id, th[1].raw)
    IN [out |-> r.out, history |-> r.history]

\* C9: a reset or a rule reload issued while a call is in flight is serialized
\* against it: the call's output and the final history are those of the call
\* followed by the reset or reload, or of the reset or reload followed by the call.
C9_ResetReloadSerialized ==
    (th[1].pc = "done" /\ th[2].pc = "idle" /\ adm.pc \in {"reset_done", "reload_done"}) =>
        [out |-> th[1].out, history |-> history] \in {CallThenAdm, AdmThenCall}
(***************************************************************************)
(* Two events with one dedupe_key and a run of other events between them   *)
(* (SpecKey): the first call carries the key, then come calls with a       *)
(* filler event, then at most MaxSteps calls with an event of              *)
(* KeyOtherEvents.  The wall clock stays at T0.                            *)
(***************************************************************************)
KeyedHi == With(BaseEvent("u1", "alert", TextHi, Iso(T0, "Z")), "dedupe_key", "k1")
KeyedNumberId == With(Keyed, "event_id", -7)
NaiveBang == BaseEvent("u1", "alert", TextBang, Iso(T0, ""))
KeyFirstEvents == {Keyed, KeyedOld}
KeyOtherEvents == {Keyed, KeyedHi, KeyedOld, KeyedNumberId, NaiveBang}
KeyFillerCalls == HISTORY_BUFFER_SIZE + 1

KeyFirst(raw_event) ==
    /\ nproc = 0
    /\ Call(raw_event)
    /\ UNCHANGED <<nwarm, nsteps>>

KeyFiller(raw_event) ==
    /\ nproc > 0
    /\ nsteps = 0
    /\ nwarm < KeyFillerCalls
    /\ Call(raw_event)
    /\ nwarm' = nwarm + 1
    /\ UNCHANGED nsteps

KeyOther(raw_event) ==
    /\ nproc > 0
    /\ nsteps < MaxSteps
    /\ Call(raw_event)
    /\ nsteps' = nsteps + 1
    /\ UNCHANGED nwarm

NextKey ==
    \/ \E raw_event \in KeyFirstEvents : KeyFirst(raw_event)
    \/ \E raw_event \in FillerEvents : KeyFiller(raw_event)
    \/ \E raw_event \in KeyOtherEvents : KeyOther(raw_event)

SpecKey == Init /\ [][NextKey]_vars

\* the outcome NEVER / DUPLICATE_DEDUPE_KEY
KeyDuplicateOutcome(o) ==
    /\ o.k = "returned"
    /\ o.decision = "NEVER"
    /\ o.explanation_code = "DUPLICATE_DEDUPE_KEY"

\* the index of the latest of the records that carries the key (0: none)
LastWithKey(records, key) ==
    LET idx == {i \in 1..Len(records) : records[i].dedupe_key = key}
    IN IF idx = {} THEN 0 ELSE CHOOSE i \in idx : \A j \in idx : j <= i

\* the index of the latest of the records that carries the key and whose timestamp
\* is no older than DEDUPE_WINDOW_MINUTES (0: none)
LastWithKeyInWindow(records, key, clock) ==
    LET idx == {i \in 1..Len(records) :
                   /\ records[i].dedupe_key = key
                   /\ records[i].parsed_timestamp.aware
                   /\ Utc(records[i].parsed_timestamp) >= clock - DEDUPE_WINDOW_MINUTES}
    IN IF idx = {} THEN 0 ELSE CHOOSE i \in idx : \A j \in idx : j <= i

\* the first call of the run was a valid event of user u with the key and a
\* timestamp inside the dedupe window
FirstCallKeyed(u, key) ==
    /\ nproc > 0
    /\ validate_event(Keyed, 0).ev.user_id = u
    /\ Keyed.dedupe_key = key
    /\ logs # <<>>
    /\ Utc(FromIso(logs[1].timestamp).dt) >= now - DEDUPE_WINDOW_MINUTES

\* every record of the user's ring has a timestamp with UTC offset and a string
\* event_id
WellFormedRing(u) ==
    \A i \in 1..Len(history[u]) :
        history[u][i].parsed_timestamp.aware /\ history[u][i].event_id > 0

\* C11 as stated: after a valid event with a dedupe_key and a timestamp inside
\* the dedupe window, a later valid event of the same user with the same key
\* yields NEVER / DUPLICATE_DEDUPE_KEY however many other events of that user
\* were processed between them, and the matched event is the most recently
\* recorded one with that key.  (Stated for runs whose recorded events all
\* carry a UTC offset and a string event_id.)
C11_SecondKeyedIsDuplicate ==
    [][(IsCall /\ Validated.k = "ok" /\ TruthyStr(Validated.ev.dedupe_key)
          /\ WellFormedRing(Validated.ev.user_id)
          /\ FirstCallKeyed(Validated.ev.user_id, Validated.ev.dedupe_key)) =>
          /\ KeyDuplicateOutcome(out')
          /\ dedup_check(history, Validated.ev, now).matched_event_id =
                history[Validated.ev.user_id]
                       [LastWithKey(history[Validated.ev.user_id],
                                    Validated.ev.dedupe_key)].event_id]_vars

\* the cases the amended C11 covers: the user's ring still holds a record with
\* the key whose timestamp is inside the window, and every record of the ring
\* has a timestamp with UTC offset and a string event_id
KeyedCovered(event) ==
    /\ TruthyStr(event.dedupe_key)
    /\ LastWithKeyInWindow(history[event.user_id], event.dedupe_key, now) # 0
    /\ WellFormedRing(event.user_id)

\* C11 as amended: a valid event with a dedupe_key, processed while the user's
\* ring of the last HISTORY_BUFFER_SIZE records still holds a record with that
\* key and a timestamp inside the dedupe window, yields NEVER /
\* DUPLICATE_DEDUPE_KEY with no scheduled time, whatever its title and message,
\* and the matched event is the most recently recorded one of those records.
C11_KeyedInRingIsDuplicate ==
    [][(IsCall /\ Validated.k = "ok" /\ KeyedCovered(Validated.ev)) =>
          /\ KeyDuplicateOutcome(out')
          /\ out'.scheduled_time = NoneIso
          /\ dedup_check(history, Validated.ev, now).matched_event_id =
                history[Validated.ev.user_id]
                       [LastWithKeyInWindow(history[Validated.ev.user_id],
                                            Validated.ev.dedupe_key, now)].event_id]_vars
\* a keyed event with another text, suppressed after a run of other events
C11_Witness ==
    /\ op = "process_event"
    /\ raw = KeyedHi
    /\ nwarm >= FREQUENCY_LIMIT
    /\ KeyDuplicateOutcome(out)
    /\ Len(history["u1"]) = nproc
(***************************************************************************)
(* Replays on an engine constructed with rules (SpecDup): at most          *)
(* MaxSteps + 2 steps, each a call with an event of DupEvents or a tick of *)
(* the wall clock.                                                         *)
(***************************************************************************)
DocForceNow == <<Rule("r_now", 9, NoMatch, Force("NOW"))>>
DupDocs == {DocEmpty, DocForceNow}
DupEvents == {Keyed, KeyedHi, Reminder, AlertHi, NumberId}

\* DecisionEngine(rules_data=doc, simulate_llm_failure=failure) for a doc of docs
InitConstructed(docs) ==
    /\ history = [u \in UserIds |-> <<>>]
    /\ logs = <<>>
    /\ rules \in {SortRules(doc) : doc \in docs}
    /\ simulate_failure \in BOOLEAN
    /\ now = T0
    /\ next_id = 1
    /\ op = "init"
    /\ raw = NoRaw
    /\ out = NoOut
    /\ nproc = 0
    /\ nwarm = 0
    /\ nsteps = 0
    /\ replay = FALSE
    /\ th = <<>>
    /\ base = <<>>
    /\ adm = <<>>

InitDup == InitConstructed(DupDocs)

DupCall(raw_event) ==
    /\ nsteps < MaxSteps + 2
    /\ Call(raw_event)
    /\ nsteps' = nsteps + 1
    /\ UNCHANGED nwarm

DupTick ==
    /\ nsteps < MaxSteps + 2
    /\ now' = now + TickMinutes
    /\ nsteps' = nsteps + 1
    /\ UNCHANGED <<history, logs, rules, simulate_failure, next_id, op, raw, out,
                   nproc, nwarm, th, base, adm, replay>>

NextDup ==
    \/ \E raw_event \in DupEvents : DupCall(raw_event)
    \/ DupTick

SpecDup == InitDup /\ [][NextDup]_vars

DUPLICATE_CODES == {"DUPLICATE_DEDUPE_KEY", "DUPLICATE_TEXT_SIMILAR"}

\* the ring after the addition of a record
RingAfter(ring, record) ==
    IF Len(ring) >= HISTORY_BUFFER_SIZE THEN Tail(ring) \o <<record>>
    ELSE Append(ring, record)

\* the call short-circuits on the duplicate hit: it returns NEVER with the
\* duplicate type, no scheduled time and no rule, and writes one history record
\* with decision NEVER and the event's dedupe_key and normalized text
ShortCircuits(event, hit) ==
    /\ out' = Returned("NEVER", NoneIso, hit.duplicate_type, "duplicate", NoneStr)
    /\ hit.duplicate_type \in DUPLICATE_CODES
    /\ \E record \in {history'[event.user_id][Len(history'[event.user_id])]} :
          /\ history'[event.user_id] = RingAfter(history[event.user_id], record)
          /\ record.decision = "NEVER"
          /\ record.explanation_code = hit.duplicate_type
          /\ record.dedupe_key = event.dedupe_key
          /\ record.normalized_text = EventText(event)
          /\ record.event_id = event.event_id
    /\ \A u \in UserIds \ {event.user_id} : history'[u] = history[u]

\* the call replays the event of the call before it, which was suppressed as a
\* duplicate
ReplayOfDuplicate ==
    /\ IsCall
    /\ op = "process_event"
    /\ raw' = raw
    /\ out.k = "returned"
    /\ out.explanation_code \in DUPLICATE_CODES

\* C12 as stated: a duplicate hit short-circuits the pipeline (NEVER, the
\* duplicate type, no scheduled time, no effect of classifier, rules, frequency,
\* noise or scheduler) and writes a NEVER record with the event's dedupe_key and
\* normalized text, and every further replay of the event is suppressed as a
\* duplicate again.  (Stated for rings whose records all carry a UTC offset and
\* a string event_id.)
C12_DuplicateShortCircuits ==
    [][(IsCall /\ Validated.k = "ok" /\ WellFormedRing(Validated.ev.user_id)) =>
          /\ (dedup_check(history, Validated.ev, now).is_duplicate =>
                 ShortCircuits(Validated.ev, dedup_check(history, Validated.ev, now)))
          /\ (ReplayOfDuplicate =>
                 out'.k = "returned" /\ out'.explanation_code \in DUPLICATE_CODES)]_vars

\* C12 as amended: the same, with a further replay suppressed again when the
\* event's timestamp carries a UTC offset and is no older than
\* DEDUPE_WINDOW_MINUTES at that replay.
C12_DuplicateShortCircuitsInWindow ==
    [][(IsCall /\ Validated.k = "ok" /\ WellFormedRing(Validated.ev.user_id)) =>
          /\ (dedup_check(history, Validated.ev, now).is_duplicate =>
                 ShortCircuits(Validated.ev, dedup_check(history, Validated.ev, now)))
          /\ ((/\ ReplayOfDuplicate
               /\ Validated.ev.parsed_timestamp.aware
               /\ Utc(Validated.ev.parsed_timestamp) >= now - DEDUPE_WINDOW_MINUTES) =>
                 out'.k = "returned" /\ out'.explanation_code \in DUPLICATE_CODES)]_vars
\* a third replay, suppressed under a rule that forces NOW on every event
C12_Witness ==
    /\ op = "process_event"
    /\ replay
    /\ rules = SortRules(DocForceNow)
    /\ out.k = "returned"
    /\ out.explanation_code \in DUPLICATE_CODES
    /\ \E i \in 1..Len(logs) : \E j \in (i + 1)..(Len(logs) - 1) :
          /\ logs[i].explanation_code = "RULE_OVERRIDE"
          /\ logs[j].explanation_code \in DUPLICATE_CODES

(***************************************************************************)
(* SpecRules: engines constructed over rule documents with several         *)
(* forcing rules, a rule without a priority, and caps and downgrades       *)
(* placed before and after the forcing rules                               *)
(***************************************************************************)
\* a rule document entry without the "priority" key
NoPriority(rule) == [rule EXCEPT !.keys = @ \ {"priority"}]

DocForcing ==
    <<Rule("r_low", 1, NoMatch, Force("NOW")),
      Rule("r_high", 7, MatchTypes({"alert"}), Force("LATER")),
      Rule("r_same", 7, NoMatch, Force("NEVER")),
      Rule("r_down", 9, NoMatch, Downgrade("NOW" :> "LATER"))>>
DocNoPriority ==
    <<NoPriority(Rule("r_zero", 0, NoMatch, Force("NEVER"))),
      Rule("r_two", 2, MatchTypes({"alert", "reminder"}), Force("NOW")),
      Rule("r_cap_low", 1, NoMatch, LimitPerDay(1))>>
DocCapFirst ==
    <<Rule("r_force", 4, NoMatch, Force("NOW")),
      Rule("r_cap", 8, MatchTypes({"alert"}), LimitPerDay(1))>>
ForcingDocs == {DocForcing, DocNoPriority, DocCapFirst}
RuleEvents == {AlertHi, Reminder, Promo}
DECISIONS == {"NOW", "LATER", "NEVER"}

InitRules == InitConstructed(ForcingDocs)

RulesCall(raw_event) ==
    /\ nsteps < MaxSteps + 1
    /\ Call(raw_event)
    /\ nsteps' = nsteps + 1
    /\ UNCHANGED nwarm

NextRules == \E raw_event \in RuleEvents : RulesCall(raw_event)

SpecRules == InitRules /\ [][NextRules]_vars

\* the rules of a document that match the event and carry force_decision
ForcingIn(doc, event) ==
    {i \in 1..Len(doc) : matches_rule(event, doc[i]) /\ "force_decision" \in doc[i].action.keys}
\* rule j comes before rule i: higher priority, or loaded earlier at equal priority
Before(doc, j, i) ==
    \/ PriorityOf(doc[j]) > PriorityOf(doc[i])
    \/ PriorityOf(doc[j]) = PriorityOf(doc[i]) /\ j < i
\* the forcing rule with the highest priority, the earliest loaded among equals
Winner(doc, event) ==
    CHOOSE i \in ForcingIn(doc, event) : \A j \in ForcingIn(doc, event) \ {i} : Before(doc, i, j)
\* the matching rules before rule i whose limit_per_day is reached
CapsBefore(doc, event, i) ==
    {j \in 1..Len(doc) :
        /\ Before(doc, j, i)
        /\ matches_rule(event, doc[j])
        /\ "limit_per_day" \in doc[j].action.keys
        /\ count_event_type_today(history, event.user_id, event.event_type, now)
               >= doc[j].action.limit_per_day}
\* the document without the rules that come after rule i
RECURSIVE UpTo(_, _, _)
UpTo(doc, i, n) ==
    IF n = 0 THEN <<>>
    ELSE IF n = i \/ Before(doc, n, i) THEN Append(UpTo(doc, i, n - 1), doc[n])
    ELSE UpTo(doc, i, n - 1)
Applied(doc, event, d) ==
    apply_actions(event, rule_match(event, SortRules(doc)), d, history, now)
RuleCases ==
    {c \in [doc : ForcingDocs, raw_event : RuleEvents, d : DECISIONS] :
        /\ rules = SortRules(c.doc)
        /\ ForcingIn(c.doc, validate_event(c.raw_event, next_id).ev) # {}}
ForcedBy(rule) == RuleResult(rule.action.force_decision, "RULE_OVERRIDE", RuleId(rule), "rule")

\* C13 (as stated): when matched rules carry force_decision, apply_actions returns
\* the label and id of the forcing rule with the highest priority (the earliest
\* loaded among equals) with RULE_OVERRIDE, and the rules after it have no influence.
C13_HighestForcingRuleWins ==
    \A c \in RuleCases :
        LET event == validate_event(c.raw_event, next_id).ev
            w == Winner(c.doc, event)
        IN /\ Applied(c.doc, event, c.d) = ForcedBy(c.doc[w])
           /\ Applied(c.doc, event, c.d)
                  = apply_actions(event, rule_match(event, SortRules(UpTo(c.doc, w, Len(c.doc)))),
                                  c.d, history, now)

\* C13 (amended): the same, unless a matching rule that comes before that forcing
\* rule carries limit_per_day and its limit is reached; then the first such rule
\* returns NEVER / RULE_OVERRIDE with its own id. In both cases the rules after
\* the forcing rule have no influence.
C13_HighestForcingRuleWinsUnlessCapped ==
    \A c \in RuleCases :
        LET event == validate_event(c.raw_event, next_id).ev
            w == Winner(c.doc, event)
            caps == CapsBefore(c.doc, event, w)
            cap == CHOOSE j \in caps : \A k \in caps \ {j} : Before(c.doc, j, k)
        IN /\ caps = {} => Applied(c.doc, event, c.d) = ForcedBy(c.doc[w])
           /\ caps # {} =>
                  Applied(c.doc, event, c.d)
                      = RuleResult("NEVER", "RULE_OVERRIDE", RuleId(c.doc[cap]), "rule")
           /\ Applied(c.doc, event, c.d)
                  = apply_actions(event, rule_match(event, SortRules(UpTo(c.doc, w, Len(c.doc)))),
                                  c.d, history, now)

\* a call on an alert under DocForcing: a downgrade of higher priority, two forcing
\* rules of equal priority and one of lower priority match, and r_high decided
C13_Witness ==
    /\ op = "process_event"
    /\ rules = SortRules(DocForcing)
    /\ raw = AlertHi
    /\ Cardinality(ForcingIn(DocForcing, validate_event(AlertHi, next_id).ev)) = 3
    /\ out.k = "returned"
    /\ out.matched_rule_id = "r_high"
    /\ out.explanation_code = "RULE_OVERRIDE"
    /\ out.decision = "LATER"

(***************************************************************************)
(* SpecStages: engines constructed with or without rules and with the      *)
(* classifier or its fallback; a run of urgent alerts, then a run of       *)
(* reminders, brings the user's history to the frequency and noise         *)
(* boundaries; then a few calls and clock steps                            *)
(***************************************************************************)
\* a reminder without word characters: classified LATER, never a near-duplicate
ReminderBang == BaseEvent("u1", "reminder", TextBang, Iso(T0, "Z"))
\* an update from another source: LATER unless a rule forces it
UpdateS2 == With(BaseEvent("u1", "update", TextBang, Iso(T0, "Z")), "source", "s2")

DocForceUpdate ==
    <<Rule("r_upd_later", 3, MatchTypes({"update"}), Force("LATER")),
      Rule("r_upd", 9, MatchTypes({"update"}), Force("NOW"))>>
DocKeep ==
    <<Rule("r_keep", 6, NoMatch, Downgrade("NEVER" :> "NEVER")),
      Rule("r_rem", 2, MatchTypes({"reminder"}), Force("LATER")),
      Rule("r_upd_never", 2, MatchTypes({"update"}), Force("NEVER"))>>
StageDocs == {DocEmpty, DocForceUpdate, DocKeep}
\* an update from the default source
UpdatePlain == BaseEvent("u1", "update", TextBang, Iso(T0, "Z"))
StageEvents == {AlertBang, ReminderBang, UpdateS2, UpdatePlain, ReminderExpiring}
StageFillerCalls == FREQUENCY_LIMIT + 3

InitStages == InitConstructed(StageDocs)

\* the run of urgent alerts
FillNow ==
    /\ nsteps = 0
    /\ nwarm < StageFillerCalls
    /\ nproc = 0 \/ raw = AlertBang
    /\ Call(AlertBang)
    /\ nwarm' = nwarm + 1
    /\ UNCHANGED nsteps

\* the run of reminders
FillLater ==
    /\ nsteps = 0
    /\ nwarm < StageFillerCalls
    /\ Call(ReminderBang)
    /\ nwarm' = nwarm + 1
    /\ UNCHANGED nsteps

StageCall(raw_event) ==
    /\ nsteps < MaxSteps
    /\ Call(raw_event)
    /\ nsteps' = nsteps + 1
    /\ UNCHANGED nwarm

StageTick ==
    /\ nsteps < MaxSteps
    /\ now' = now + TickMinutes
    /\ nsteps' = nsteps + 1
    /\ UNCHANGED <<history, logs, rules, simulate_failure, next_id, op, raw, out,
                   nproc, nwarm, th, base, adm, replay>>

NextStages ==
    \/ FillNow
    \/ FillLater
    \/ \E raw_event \in StageEvents : StageCall(raw_event)
    \/ StageTick

SpecStages == InitStages /\ [][NextStages]_vars

\* a call on a valid event that the duplicate check lets through
StageCase ==
    /\ IsCall
    /\ Validated.k = "ok"
    /\ dedup_check(history, Validated.ev, now).k = "ok"
    /\ ~dedup_check(history, Validated.ev, now).is_duplicate
\* the decision of that call after classifier and rules
PostRule == RuleStage(Validated.ev, rules, simulate_failure, history, now)
\* the rules matching the event of that call
Matching == {i \in 1..Len(rules) : matches_rule(Validated.ev, rules[i])}
Forcing == {i \in Matching : "force_decision" \in rules[i].action.keys}
DEMOTION_CODES == {"FREQUENCY_LIMIT", "FREQUENCY_SUPPRESSION", "CONFLICT_NOISE_LIMIT"}
Urgency(d) == CASE d = "NOW" -> 2 [] d = "LATER" -> 1 [] OTHER -> 0
NotMoreUrgent(final, ruled) ==
    \/ final = ruled
    \/ final \in DECISIONS /\ ruled \in DECISIONS /\ Urgency(final) < Urgency(ruled)

\* C14 (as stated): for a non-duplicate valid event, if a matching forcing rule R has
\* priority strictly greater than every other matching rule with force_decision,
\* the final code is RULE_OVERRIDE or one of the frequency / noise demotion codes,
\* and the final decision is not more urgent than the one the rules produced.
C14_RuleOverrideOrDemoted ==
    [][StageCase
       /\ (\E r \in Forcing : \A f \in Forcing \ {r} :
               PriorityOf(rules[r]) > PriorityOf(rules[f]))
       => /\ out'.k = "returned"
          /\ out'.explanation_code \in {"RULE_OVERRIDE"} \cup DEMOTION_CODES
          /\ NotMoreUrgent(out'.decision, PostRule.decision)]_vars

\* the event's timestamp and expires_at carry a UTC offset, and so does every
\* record of the user's ring, whose event ids are strings
StageCovered ==
    /\ Validated.ev.parsed_timestamp.aware
    /\ Validated.ev.expires_at.k # "none" => Validated.ev.expires_at.aware
    /\ WellFormedRing(Validated.ev.user_id)

\* C14 (amended): for a non-duplicate valid event, if a matching rule R with
\* force_decision has priority strictly greater than every other matching rule
\* with force_decision, the final code is RULE_OVERRIDE, a frequency / noise
\* demotion code, or EXPIRED; and for every non-duplicate valid event the final
\* decision is not more urgent than the one the rules produced.  (Stated for
\* timestamps with UTC offset.)
C14_RuleOverrideDemotedOrExpired ==
    [][StageCase /\ StageCovered
       => /\ out'.k = "returned"
          /\ NotMoreUrgent(out'.decision, PostRule.decision)
          /\ (\E r \in Forcing : \A f \in Forcing \ {r} :
                  PriorityOf(rules[r]) > PriorityOf(rules[f]))
             => out'.explanation_code \in {"RULE_OVERRIDE", "EXPIRED"} \cup DEMOTION_CODES]_vars

\* an update forced to NOW by r_upd, which outranks the forcing rule r_upd_later,
\* was demoted by the frequency stage
C14_Witness ==
    /\ op = "process_event"
    /\ raw = UpdateS2
    /\ rules = SortRules(DocForceUpdate)
    /\ out.k = "returned"
    /\ out.explanation_code = "FREQUENCY_LIMIT"
    /\ out.decision = "LATER"
    /\ out.matched_rule_id = "r_upd"

\* freq_count: the user's records whose timestamp lies in the last
\* FREQUENCY_WINDOW_MINUTES before the call
FreqCount ==
    Cardinality({i \in DOMAIN history[Validated.ev.user_id] :
                    Utc(history[Validated.ev.user_id][i].parsed_timestamp)
                        >= now - FREQUENCY_WINDOW_MINUTES})
\* urgent_count: the user's records of the last NOISE_LIMIT_WINDOW_MINUTES with
\* decision NOW and the event's event_type or the event's source
UrgentCount ==
    Cardinality({i \in DOMAIN history[Validated.ev.user_id] :
                    LET r == history[Validated.ev.user_id][i]
                    IN /\ Utc(r.parsed_timestamp) >= now - NOISE_LIMIT_WINDOW_MINUTES
                       /\ r.decision = "NOW"
                       /\ (r.event_type = Validated.ev.event_type
                           \/ r.source = Validated.ev.source)})
\* the outcome of a LATER that the scheduler expired
ExpiredOut ==
    /\ Validated.ev.expires_at.k # "none"
    /\ out'.decision = "NEVER"
    /\ out'.explanation_code = "EXPIRED"
    /\ out'.scheduled_time = NoneIso
\* the outcome of a decision that reached the scheduler as LATER with that code
LaterOut(code) ==
    \/ /\ out'.decision = "LATER"
       /\ out'.explanation_code = code
       /\ out'.scheduled_time # NoneIso
    \/ ExpiredOut
\* the outcome of a decision that stayed NOW with that code
NowOut(code) ==
    /\ out'.decision = "NOW"
    /\ out'.explanation_code = code
    /\ out'.scheduled_time = NoneIso

\* C15: a post-rule NOW is kept by the frequency stage when freq_count is below
\* FREQUENCY_LIMIT (it stays NOW or goes on to the noise demotion) and is demoted
\* to LATER / FREQUENCY_LIMIT when freq_count >= FREQUENCY_LIMIT (the scheduler
\* may then expire it), whether the NOW came from the classifier, the fallback
\* or a rule.
C15_FrequencyBoundary ==
    [][StageCase /\ StageCovered /\ PostRule.decision = "NOW"
       => /\ out'.k = "returned"
          /\ FreqCount < FREQUENCY_LIMIT
             => NowOut(PostRule.explanation_code) \/ LaterOut("CONFLICT_NOISE_LIMIT")
          /\ FreqCount >= FREQUENCY_LIMIT => LaterOut("FREQUENCY_LIMIT")]_vars

\* a NOW forced by the rule r_upd at freq_count = FREQUENCY_LIMIT - 1 stayed NOW
\* (the call added the FREQUENCY_LIMIT-th record of the window)
C15_Witness ==
    /\ op = "process_event"
    /\ now = T0
    /\ raw = UpdateS2
    /\ out.k = "returned"
    /\ out.decision = "NOW"
    /\ out.matched_rule_id = "r_upd"
    /\ Len(history["u1"]) = FREQUENCY_LIMIT
    /\ nsteps = 1

\* C16: an output has code FREQUENCY_SUPPRESSION exactly when the decision after
\* classifier and rules is LATER and freq_count >= FREQUENCY_LIMIT + 2, and its
\* decision is NEVER; a NOW is demoted by one step only (LATER / FREQUENCY_LIMIT,
\* also when freq_count >= FREQUENCY_LIMIT + 2); a LATER with freq_count
\* FREQUENCY_LIMIT or FREQUENCY_LIMIT + 1 keeps its decision and code.
C16_FrequencySuppression ==
    [][IsCall /\ out'.k = "returned"
       => /\ out'.explanation_code = "FREQUENCY_SUPPRESSION"
             <=> /\ StageCase
                 /\ PostRule.decision = "LATER"
                 /\ FreqCount >= FREQUENCY_LIMIT + 2
          /\ out'.explanation_code = "FREQUENCY_SUPPRESSION"
             => out'.decision = "NEVER" /\ out'.scheduled_time = NoneIso
          /\ StageCase /\ PostRule.decision = "NOW" /\ FreqCount >= FREQUENCY_LIMIT + 2
             => LaterOut("FREQUENCY_LIMIT")
          /\ StageCase /\ PostRule.decision = "LATER"
             /\ FreqCount \in {FREQUENCY_LIMIT, FREQUENCY_LIMIT + 1}
             => LaterOut(PostRule.explanation_code)]_vars

\* a reminder classified LATER was suppressed at freq_count = FREQUENCY_LIMIT + 2,
\* after the LATER before it, at FREQUENCY_LIMIT + 1, kept its decision
C16_Witness ==
    /\ op = "process_event"
    /\ now = T0
    /\ raw = ReminderBang
    /\ out.k = "returned"
    /\ out.explanation_code = "FREQUENCY_SUPPRESSION"
    /\ out.decision = "NEVER"
    /\ Len(logs) = FREQUENCY_LIMIT + 3
    /\ logs[FREQUENCY_LIMIT + 2].decision = "LATER"
    /\ logs[FREQUENCY_LIMIT + 2].explanation_code = "LLM_DECISION"

\* C17: a decision that is NOW after the frequency stage stays NOW when
\* urgent_count is below NOISE_LIMIT_MAX_URGENT and becomes LATER with code
\* CONFLICT_NOISE_LIMIT when urgent_count >= NOISE_LIMIT_MAX_URGENT (the
\* scheduler may then expire it).
C17_NoiseBoundary ==
    [][StageCase /\ StageCovered /\ PostRule.decision = "NOW"
       /\ FreqCount < FREQUENCY_LIMIT
       => /\ out'.k = "returned"
          /\ UrgentCount < NOISE_LIMIT_MAX_URGENT => NowOut(PostRule.explanation_code)
          /\ UrgentCount >= NOISE_LIMIT_MAX_URGENT => LaterOut("CONFLICT_NOISE_LIMIT")]_vars

\* the second urgent alert (urgent_count = NOISE_LIMIT_MAX_URGENT - 1) was NOW and
\* the third (urgent_count = NOISE_LIMIT_MAX_URGENT) is LATER / CONFLICT_NOISE_LIMIT
C17_Witness ==
    /\ op = "process_event"
    /\ raw = AlertBang
    /\ Len(logs) = NOISE_LIMIT_MAX_URGENT + 1
    /\ \A i \in 1..NOISE_LIMIT_MAX_URGENT : logs[i].decision = "NOW"
    /\ out.k = "returned"
    /\ out.decision = "LATER"
    /\ out.explanation_code = "CONFLICT_NOISE_LIMIT"

\* the run so far is the stress scenario: an engine without rules that has
\* processed urgent alerts of one user, type and source, and nothing else
StressRun ==
    /\ rules = <<>>
    /\ nproc > 0
    /\ raw = AlertBang
    /\ nsteps = 0
    /\ Len(logs) = nproc

\* C18: in the stress scenario the first NOISE_LIMIT_MAX_URGENT events are NOW,
\* the following ones are LATER / CONFLICT_NOISE_LIMIT, and from the event that
\* finds FREQUENCY_LIMIT records in the window (the sixth) on they are LATER /
\* FREQUENCY_LIMIT; no event after the second is NOW.
C18_StressScenario ==
    StressRun =>
        \A i \in 1..Len(logs) :
            /\ i <= NOISE_LIMIT_MAX_URGENT => logs[i].decision = "NOW"
            /\ i > NOISE_LIMIT_MAX_URGENT /\ i <= FREQUENCY_LIMIT
               => /\ logs[i].decision = "LATER"
                  /\ logs[i].explanation_code = "CONFLICT_NOISE_LIMIT"
            /\ i > FREQUENCY_LIMIT
               => /\ logs[i].decision = "LATER"
                  /\ logs[i].explanation_code = "FREQUENCY_LIMIT"
            /\ logs[i].scheduled_time = NoneIso <=> logs[i].decision = "NOW"

\* six urgent alerts were processed by an engine without rules
C18_Witness ==
    /\ StressRun
    /\ ~simulate_failure
    /\ nproc = FREQUENCY_LIMIT + 1
    /\ out.k = "returned"
    /\ out.explanation_code = "FREQUENCY_LIMIT"

\* C19: a NOW forced by a rule is demoted like any other; every final NOW had
\* freq_count < FREQUENCY_LIMIT and urgent_count < NOISE_LIMIT_MAX_URGENT, and
\* every output with code CONFLICT_NOISE_LIMIT had a NOW after the rules,
\* freq_count < FREQUENCY_LIMIT and urgent_count >= NOISE_LIMIT_MAX_URGENT.
C19_StageOrdering ==
    [][StageCase /\ StageCovered /\ out'.k = "returned"
       => /\ out'.decision = "NOW"
             => /\ PostRule.decision = "NOW"
                /\ FreqCount < FREQUENCY_LIMIT
                /\ UrgentCount < NOISE_LIMIT_MAX_URGENT
          /\ out'.explanation_code = "CONFLICT_NOISE_LIMIT"
             => /\ PostRule.decision = "NOW"
                /\ FreqCount < FREQUENCY_LIMIT
                /\ UrgentCount >= NOISE_LIMIT_MAX_URGENT
          /\ PostRule.decision = "NOW" /\ PostRule.explanation_code = "RULE_OVERRIDE"
             /\ (FreqCount >= FREQUENCY_LIMIT \/ UrgentCount >= NOISE_LIMIT_MAX_URGENT)
             => out'.decision # "NOW"]_vars

\* a NOW forced by the rule r_upd was demoted by the noise limit while the window
\* held more than FREQUENCY_LIMIT records of an earlier time (the clock had
\* advanced past the frequency window but not past the noise window)
C19_Witness ==
    /\ op = "process_event"
    /\ raw = UpdatePlain
    /\ rules = SortRules(DocForceUpdate)
    /\ now > T0
    /\ Len(history["u1"]) > FREQUENCY_LIMIT
    /\ out.k = "returned"
    /\ out.matched_rule_id = "r_upd"
    /\ out.decision = "LATER"
    /\ out.explanation_code = "CONFLICT_NOISE_LIMIT"

(***************************************************************************)
(* SpecSched: events at the hours where the scheduler's branches change    *)
(* (quiet hours, the working hour, midnight), with and without a rule      *)
(* that forces LATER, after a run of alerts that fills the frequency       *)
(* window                                                                  *)
(***************************************************************************)
\* the time h:m of the day of T0, in minutes
At(h, m) == (T0 \div MinutesPerDay) * MinutesPerDay + h * 60 + m
SchedTimes ==
    {At(0, 0), At(5, 59), At(6, 0), At(8, 59), At(9, 0), At(21, 59), At(22, 0), At(23, 59)}
SchedTypes == {"alert", "reminder", "message"}
SchedEvents ==
    {BaseEvent("u1", type, TextBang, Iso(t, "Z")) : type \in SchedTypes, t \in SchedTimes}
    \cup {BaseEvent("u1", "reminder", TextBang, Iso(At(8, 59), "+05:30")),
          BaseEvent("u1", "message", TextBang, Iso(At(22, 0), "-02:00")),
          BaseEvent("u1", "reminder", TextBang, Iso(At(9, 0), "")),
          With(BaseEvent("u1", "reminder", TextBang, Iso(At(8, 59), "Z")),
               "expires_at", Iso(At(9, 0), "Z")),
          With(BaseEvent("u1", "message", TextBang, Iso(At(23, 59), "Z")),
               "expires_at", Iso(At(23, 59) + MinutesPerDay, "Z"))}
\* an alert later in the day than the wall clock: inside every window
AlertLate == BaseEvent("u1", "alert", TextBang, Iso(At(23, 59), "Z"))
DocForceLater == <<Rule("r_later", 5, MatchTypes({"message", "alert"}), Force("LATER"))>>
SchedDocs == {DocEmpty, DocForceLater}
SchedFillerCalls == FREQUENCY_LIMIT + 3
SchedCalls == MaxSteps - 1

InitSched == InitConstructed(SchedDocs)

SchedFiller ==
    /\ nsteps = 0
    /\ nwarm < SchedFillerCalls
    /\ Call(AlertLate)
    /\ nwarm' = nwarm + 1
    /\ UNCHANGED nsteps

SchedCall(raw_event) ==
    /\ nsteps < SchedCalls
    /\ Call(raw_event)
    /\ nsteps' = nsteps + 1
    /\ UNCHANGED nwarm

NextSched ==
    \/ SchedFiller
    \/ \E raw_event \in SchedEvents : SchedCall(raw_event)

SpecSched == InitSched /\ [][NextSched]_vars

\* the datetime a is strictly later than the datetime b of the same awareness
Later(a, b) == a.aware = b.aware /\ Key(a) > Key(b)

\* C20: every scheduled_time a call returns is strictly later than the timestamp
\* of its event, whichever branch of the scheduler computed it.
C20_ScheduledAfterTimestamp ==
    [][IsCall /\ out'.k = "returned" /\ out'.scheduled_time # NoneIso
       => /\ Validated.k = "ok"
          /\ out'.decision = "LATER"
          /\ FromIso(out'.scheduled_time).k = "ok"
          /\ Later(FromIso(out'.scheduled_time).dt, Validated.ev.parsed_timestamp)]_vars

\* a reminder at exactly DEFAULT_WORKING_HOUR was scheduled for that hour of the
\* next day
C20_Witness ==
    /\ op = "process_event"
    /\ raw = BaseEvent("u1", "reminder", TextBang, Iso(At(DEFAULT_WORKING_HOUR, 0), "Z"))
    /\ out.k = "returned"
    /\ out.decision = "LATER"
    /\ out.scheduled_time = Iso(At(DEFAULT_WORKING_HOUR, 0) + MinutesPerDay, "+00:00")

(***************************************************************************)
(* SpecExpiry: events whose expires_at lies just before, at and just after *)
(* the time each scheduler branch computes, after a run of alerts that     *)
(* fills the frequency window                                              *)
(***************************************************************************)
\* the event with expires_at d minutes after its timestamp, written with suffix sfx
Expiring(event, d, sfx) ==
    With(event, "expires_at", Iso(event.timestamp.local + d + OffsetOf(sfx), sfx))
ExpiryEvents ==
    {Expiring(BaseEvent("u1", type, TextBang, Iso(T0, "Z")), d, "Z") :
        type \in {"alert", "message"},
        d \in {2 * BASE_BACKOFF_MINUTES, 2 * BASE_BACKOFF_MINUTES + 1,
               3 * BASE_BACKOFF_MINUTES, 3 * BASE_BACKOFF_MINUTES + 1,
               4 * BASE_BACKOFF_MINUTES}}
    \cup {Expiring(BaseEvent("u1", "reminder", TextBang, Iso(At(8, 59), "Z")), d, "Z") :
            d \in {0, 1, 2}}
    \cup {Expiring(BaseEvent("u1", "message", TextBang, Iso(T0, "Z")),
                   3 * BASE_BACKOFF_MINUTES, "+05:30"),
          Expiring(BaseEvent("u1", "reminder", TextBang, Iso(At(8, 59), "+05:30")), 0, "Z")}

InitExpiry == InitConstructed(SchedDocs)

ExpiryFiller ==
    /\ nsteps = 0
    /\ nwarm < SchedFillerCalls
    /\ Call(AlertLate)
    /\ nwarm' = nwarm + 1
    /\ UNCHANGED nsteps

ExpiryCall(raw_event) ==
    /\ nsteps < SchedCalls
    /\ Call(raw_event)
    /\ nsteps' = nsteps + 1
    /\ UNCHANGED nwarm

NextExpiry ==
    \/ ExpiryFiller
    \/ \E raw_event \in ExpiryEvents : ExpiryCall(raw_event)

SpecExpiry == InitExpiry /\ [][NextExpiry]_vars

\* the decision of the call when the scheduler runs: after the frequency stage
\* and, for a NOW, the noise stage
PreSchedule ==
    LET cur5 == FrequencyStage(PostRule, FreqCount)
    IN IF cur5.decision = "NOW" THEN NoiseStage(cur5, UrgentCount) ELSE cur5
\* the time the scheduler computes for that decision
Computed ==
    BaseSchedule(Validated.ev.parsed_timestamp, Validated.ev.event_type,
                 PreSchedule.explanation_code, FreqCount)
\* the record the call added to the user's ring
Recorded == history'[Validated.ev.user_id][Len(history'[Validated.ev.user_id])]

\* C21: for an event with expires_at whose decision is LATER when the scheduler
\* runs, the outcome is NEVER / EXPIRED without scheduled time exactly when the
\* computed time is strictly after expires_at, and the history record then carries
\* NEVER / EXPIRED; otherwise (a computed time equal to expires_at included) it
\* stays LATER with the computed time, so every final LATER has scheduled_time <=
\* expires_at.
C21_ExpiredIffAfterExpiry ==
    [][StageCase /\ StageCovered /\ Validated.ev.expires_at.k # "none"
       => /\ out'.k = "returned"
          /\ PreSchedule.decision = "LATER"
             => /\ Utc(Computed) > Utc(Validated.ev.expires_at)
                   <=> /\ out'.decision = "NEVER"
                       /\ out'.explanation_code = "EXPIRED"
                       /\ out'.scheduled_time = NoneIso
                /\ out'.explanation_code = "EXPIRED"
                   => /\ Recorded.decision = "NEVER"
                      /\ Recorded.explanation_code = "EXPIRED"
                /\ Utc(Computed) <= Utc(Validated.ev.expires_at)
                   => /\ out'.decision = "LATER"
                      /\ out'.explanation_code = PreSchedule.explanation_code
                      /\ out'.scheduled_time = IsoFormat(Computed)
          /\ out'.decision = "LATER"
             => Utc(FromIso(out'.scheduled_time).dt) <= Utc(Validated.ev.expires_at)
          /\ out'.explanation_code = "EXPIRED" => PreSchedule.decision = "LATER"]_vars

\* a message whose expires_at equals the computed timestamp + 15 minutes stayed
\* LATER, scheduled at expires_at
C21_Witness ==
    /\ op = "process_event"
    /\ raw = Expiring(BaseEvent("u1", "message", TextBang, Iso(T0, "Z")),
                      3 * BASE_BACKOFF_MINUTES, "Z")
    /\ out.k = "returned"
    /\ out.decision = "LATER"
    /\ out.scheduled_time = IsoFormat(FromIso(raw.expires_at).dt)

\* two outcomes agree: both raise, or both return the same decision and code
Agree(a, b) ==
    /\ a.k = b.k
    /\ a.decision = b.decision
    /\ a.explanation_code = b.explanation_code

UrgentPromo ==
    With(BaseEvent("u1", "promotion", TextSale, Iso(T0, "Z")), "priority_hint", "urgent")
LowAlert == With(BaseEvent("u1", "alert", TextBang, Iso(T0, "Z")), "priority_hint", "low")
MediumSystem ==
    With(BaseEvent("u1", "system", TextBang, Iso(T0, "Z")), "priority_hint", "medium")
PromoBang == BaseEvent("u1", "promotion", TextBang, Iso(T0, "Z"))
FallbackEvents == {AlertBang, UrgentPromo, LowAlert, MediumSystem, PromoBang, ReminderBang}
FallbackDocs == {DocEmpty, DocOverrides}

InitFallback == InitConstructed(FallbackDocs)

FallbackCall(raw_event) ==
    /\ nsteps < MaxSteps + 1
    /\ Call(raw_event)
    /\ nsteps' = nsteps + 1
    /\ UNCHANGED nwarm

\* engine.set_llm_failure(enabled)
FallbackSwitch(enabled) ==
    /\ nsteps < MaxSteps + 1
    /\ simulate_failure' = enabled
    /\ op' = "set_llm_failure"
    /\ nsteps' = nsteps + 1
    /\ UNCHANGED <<history, logs, rules, now, next_id, raw, out, nproc, nwarm,
                   th, base, adm, replay>>

NextFallback ==
    \/ \E raw_event \in FallbackEvents : FallbackCall(raw_event)
    \/ \E enabled \in BOOLEAN : FallbackSwitch(enabled)

SpecFallback == InitFallback /\ [][NextFallback]_vars

\* the label the fallback is to give: by priority hint, else by event type, else
\* LATER
FallbackLabel(event) ==
    IF TruthyStr(event.priority_hint) THEN FALLBACK_MAP[event.priority_hint]
    ELSE IF event.event_type \in DOMAIN FALLBACK_EVENT_TYPE_MAP
    THEN FALLBACK_EVENT_TYPE_MAP[event.event_type]
    ELSE "LATER"

\* C23: while simulate_failure is set, the classifier stage of every validated
\* non-duplicate event gives code FALLBACK with the label of the priority hint,
\* else of the event type, else LATER (seen in the output when no rule matches
\* and no later stage demotes); with the flag clear no output has code FALLBACK.
\* A call does not change the flag, and a flag change touches neither history,
\* rules, log nor the last output.
C23_FallbackWhileFlagSet ==
    [][/\ StageCase /\ simulate_failure
          => /\ classify(Validated.ev, simulate_failure)
                    = Classified(FallbackLabel(Validated.ev), "FALLBACK", TRUE)
             /\ Matching = {}
                => /\ PostRule.decision = FallbackLabel(Validated.ev)
                   /\ PostRule.explanation_code = "FALLBACK"
             /\ Matching = {} /\ FreqCount < FREQUENCY_LIMIT
                /\ UrgentCount < NOISE_LIMIT_MAX_URGENT
                => /\ out'.k = "returned"
                   /\ out'.decision = FallbackLabel(Validated.ev)
                   /\ out'.explanation_code = "FALLBACK"
       /\ IsCall /\ ~simulate_failure => out'.explanation_code # "FALLBACK"
       /\ IsCall => simulate_failure' = simulate_failure
       /\ simulate_failure' # simulate_failure
          => /\ op' = "set_llm_failure"
             /\ UNCHANGED <<history, rules, logs, out>>]_vars

\* an urgent promotion processed with the flag set came out NOW / FALLBACK, after
\* the same engine had classified an event with the flag clear
C23_Witness ==
    /\ op = "process_event"
    /\ simulate_failure
    /\ raw = UrgentPromo
    /\ out.k = "returned"
    /\ out.decision = "NOW"
    /\ out.explanation_code = "FALLBACK"
    /\ Len(logs) = 2
    /\ logs[1].explanation_code \in {"LLM_DECISION", "URGENT_KEYWORD"}

(***************************************************************************)
(* SpecLoad: an engine is constructed from a rules file or an embedded     *)
(* list, then processes events while its rules are reloaded from files     *)
(* and lists                                                               *)
(***************************************************************************)
LoadDocs == {DocOverrides, DocForcing, DocNoPriority}
RuleFiles ==
    {RuleFile(kind, <<>>) : kind \in {"missing", "malformed", "undecodable"}}
    \cup {RuleFile(kind, doc) : kind \in {"array", "object"}, doc \in LoadDocs}
\* the files the engine is to survive: missing, or not valid JSON
BrokenFiles == {f \in RuleFiles : f.kind \in {"missing", "malformed", "undecodable"}}

\* before the constructor has run
InitLoad ==
    /\ history = [u \in UserIds |-> <<>>]
    /\ logs = <<>>
    /\ rules = <<>>
    /\ simulate_failure = FALSE
    /\ now = T0
    /\ next_id = 1
    /\ op = "new"
    /\ raw = NoRaw
    /\ out = NoOut
    /\ nproc = 0
    /\ nwarm = 0
    /\ nsteps = 0
    /\ replay = FALSE
    /\ th = <<>>
    /\ base = <<>>
    /\ adm = <<>>

\* what a load leaves: the rules, or the exception that escaped
Loaded(r, op_name) ==
    /\ rules' = IF r.k = "raised" THEN rules ELSE r.v
    /\ out' = IF r.k = "raised" THEN RaisedOut ELSE NoOut
    /\ op' = op_name
    /\ UNCHANGED <<history, logs, simulate_failure, now, next_id, raw, nproc, nsteps,
                   th, base, adm, replay>>

\* DecisionEngine(rules_path=file)
ConstructFromFile(file) ==
    /\ op = "new"
    /\ Loaded(load_rules(file), "init")
    /\ UNCHANGED nwarm

\* DecisionEngine(rules_data=doc)
ConstructFromData(doc) ==
    /\ op = "new"
    /\ Loaded(Ok(SortRules(doc)), "init")
    /\ UNCHANGED nwarm

\* an engine exists: the constructor has run and has not raised
Constructed == op # "new" /\ ~(op = "init" /\ out.k = "raised")

\* engine.reload_rules(rules_path=file)
ReloadFromFile(file) ==
    /\ Constructed
    /\ nwarm < MaxSteps
    /\ Loaded(load_rules(file), "reload_rules")
    /\ nwarm' = nwarm + 1

\* engine.reload_rules(rules_data=doc)
ReloadFromData(doc) ==
    /\ Constructed
    /\ nwarm < MaxSteps
    /\ Loaded(Ok(SortRules(doc)), "reload_rules")
    /\ nwarm' = nwarm + 1

LoadCall(raw_event) ==
    /\ Constructed
    /\ nsteps < MaxSteps
    /\ Call(raw_event)
    /\ nsteps' = nsteps + 1
    /\ UNCHANGED nwarm

NextLoad ==
    \/ \E file \in RuleFiles : ConstructFromFile(file)
    \/ \E doc \in LoadDocs : ConstructFromData(doc)
    \/ \E file \in RuleFiles : ReloadFromFile(file)
    \/ \E doc \in LoadDocs : ReloadFromData(doc)
    \/ \E raw_event \in RuleEvents : LoadCall(raw_event)

SpecLoad == InitLoad /\ [][NextLoad]_vars

\* some rules file that is missing or is not valid JSON was just loaded
LoadedBroken(file) == ConstructFromFile(file) \/ ReloadFromFile(file)

\* C24 (as stated): constructing the engine with, or reloading from, a rules
\* file that is missing or is not valid JSON raises nothing and leaves the
\* engine with an empty rule set, and every later call returns what an engine
\* with no rules returns, with matched_rule_id null
C24_BrokenFileGivesNoRules ==
    [][/\ \A file \in BrokenFiles :
            LoadedBroken(file) => out'.k # "raised" /\ rules' = <<>>
       /\ IsCall => rules' = rules
       /\ IsCall /\ rules = <<>> =>
            /\ out'.k = "returned"
            /\ out'.matched_rule_id = NoneStr
            /\ Agree(out', process_event(history, logs, <<>>, simulate_failure, now,
                                         next_id, raw').out)]_vars

(***************************************************************************)
(* SpecCap: engines constructed with rules that carry limit_per_day, next  *)
(* to forcing and downgrading rules of higher, equal and lower priority;   *)
(* a few calls, and the wall clock passing to the next day                 *)
(***************************************************************************)
\* two limits on reminders, below a rule that raises LATER to NOW
DocTwoCaps ==
    <<Rule("r_cap1", 3, MatchTypes({"reminder"}), LimitPerDay(1)),
      Rule("r_cap2", 6, NoMatch, LimitPerDay(2)),
      Rule("r_raise", 9, NoMatch, Downgrade("LATER" :> "NOW"))>>
\* a forcing rule and a limit of equal priority, the forcing rule loaded first
DocTieForce ==
    <<Rule("r_force", 3, MatchTypes({"reminder"}), Force("NOW")),
      Rule("r_cap", 3, NoMatch, LimitPerDay(1))>>
CapDocs == {DocOverrides, DocCapFirst, DocTwoCaps, DocTieForce}
\* a reminder stamped on the day after T0
ReminderNextDay == BaseEvent("u1", "reminder", TextBang, Iso(T0 + MinutesPerDay, "Z"))
CapEvents == {ReminderBang, Reminder, AlertBang, ReminderNextDay}

InitCap == InitConstructed(CapDocs)

CapCall(raw_event) ==
    /\ nsteps < MaxSteps + 1
    /\ Call(raw_event)
    /\ nsteps' = nsteps + 1
    /\ UNCHANGED nwarm

\* the wall clock reaches the same time of the next day
NextDay ==
    /\ nwarm = 0
    /\ now' = now + MinutesPerDay
    /\ nwarm' = 1
    /\ op' = "tick"
    /\ UNCHANGED <<history, logs, rules, simulate_failure, next_id, raw, out, nproc,
                   nsteps, replay, th, base, adm>>

NextCap ==
    \/ \E raw_event \in CapEvents : CapCall(raw_event)
    \/ NextDay

SpecCap == InitCap /\ [][NextCap]_vars

\* the matching rules that carry limit_per_day
Capping == {i \in Matching : "limit_per_day" \in rules[i].action.keys}
\* the records of the user and event type of that call whose timestamp carries
\* today's date
TodayCount ==
    Cardinality({k \in 1..Len(history[Validated.ev.user_id]) :
                    /\ history[Validated.ev.user_id][k].event_type = Validated.ev.event_type
                    /\ history[Validated.ev.user_id][k].parsed_timestamp.local \div MinutesPerDay
                           = now \div MinutesPerDay})
CapReached(i) == TodayCount >= rules[i].action.limit_per_day
CapOutcome(i) == Returned("NEVER", NoneIso, "RULE_OVERRIDE", "rule", RuleId(rules[i]))
\* the rules with the limit of rule i taken away
DropLimit(i) == [rules EXCEPT ![i].action.keys = @ \ {"limit_per_day"}]
\* a call with a valid event that every stage can compare with the history
CapCase == IsCall /\ Validated.k = "ok" /\ StageCovered

\* C25 (as stated): a non-duplicate event matching a rule with limit_per_day = L,
\* with no higher-priority matching rule that forces, ends NEVER / RULE_OVERRIDE
\* with that rule's id when the history holds at least L records of its type
\* dated today, and every further event in that case is NEVER; with fewer such
\* records the limit does not change the outcome.
C25_DailyCap ==
    [][CapCase =>
         \A i \in Capping :
            LET higher == {j \in Forcing : PriorityOf(rules[j]) > PriorityOf(rules[i])}
            IN /\ StageCase /\ higher = {} /\ CapReached(i) => out' = CapOutcome(i)
               /\ higher = {} /\ CapReached(i) => out'.decision = "NEVER"
               /\ ~CapReached(i) =>
                      out' = process_event(history, logs, DropLimit(i), simulate_failure,
                                           now, next_id, raw').out]_vars

\* C25 (amended): the same, when no matching rule that comes before the rule in
\* the engine's order (higher priority, or equal priority and loaded earlier)
\* forces or has its own limit reached, and the rule itself does not force; the
\* count is of the records whose timestamp carries today's UTC date.
C25_DailyCapOfFirstActingRule ==
    [][CapCase =>
         \A i \in Capping :
            LET earlier == {j \in Forcing : j <= i} \cup {j \in Capping : j < i /\ CapReached(j)}
            IN /\ StageCase /\ earlier = {} /\ CapReached(i) => out' = CapOutcome(i)
               /\ earlier = {} /\ CapReached(i) => out'.decision = "NEVER"
               /\ ~CapReached(i) =>
                      out' = process_event(history, logs, DropLimit(i), simulate_failure,
                                           now, next_id, raw').out]_vars

\* the second reminder of the day under DocTwoCaps: r_raise has raised it to NOW,
\* the limit of r_cap2 is not reached, and r_cap1 ends it NEVER
C25_Witness ==
    /\ op = "process_event"
    /\ rules = SortRules(DocTwoCaps)
    /\ raw = ReminderBang
    /\ Len(history["u1"]) = 2
    /\ history["u1"][1].event_type = "reminder"
    /\ history["u1"][1].decision = "NOW"
    /\ out = Returned("NEVER", NoneIso, "RULE_OVERRIDE", "rule", "r_cap1")

\* the engine was just constructed with, or reloaded from, the rules document
\* doc, embedded or in a file
LoadedDoc(doc) ==
    \/ ConstructFromData(doc)
    \/ ReloadFromData(doc)
    \/ \E kind \in {"array", "object"} :
          ConstructFromFile(RuleFile(kind, doc)) \/ ReloadFromFile(RuleFile(kind, doc))
\* rs holds the rules of doc, each once, a rule of higher priority before one of
\* lower priority and rules of equal priority in the order of doc
OrderedLoad(rs, doc) ==
    /\ Len(rs) = Len(doc)
    /\ \A i \in 1..Len(doc) : \E k \in 1..Len(rs) : rs[k] = doc[i]
    /\ \A k \in 1..Len(rs) : \A l \in 1..Len(rs) :
          k < l => \E i \in 1..Len(doc) : \E j \in 1..Len(doc) :
                      rs[k] = doc[i] /\ rs[l] = doc[j] /\ Before(doc, i, j)
\* the a-th index of a set of indices
NthOf(idx, a) == CHOOSE i \in idx : Cardinality({j \in idx : j <= i}) = a
\* matched holds the rules of rs that match the event, in the order of rs
MatchedInOrder(matched, event, rs) ==
    LET idx == {i \in 1..Len(rs) : matches_rule(event, rs[i])}
    IN /\ Len(matched) = Cardinality(idx)
       /\ \A a \in 1..Len(matched) : matched[a] = rs[NthOf(idx, a)]

\* C26: after construction and after every reload, from an embedded list or from
\* a file, the rule list is ordered by priority descending with rules of equal
\* priority in their load order, and match(event) returns the matching rules in
\* that same order.
C26_RulesOrderedByPriority ==
    [][/\ \A doc \in LoadDocs : LoadedDoc(doc) => OrderedLoad(rules', doc)
       /\ \A raw_event \in RuleEvents :
             MatchedInOrder(rule_match(validate_event(raw_event, next_id).ev, rules'),
                            validate_event(raw_event, next_id).ev, rules')]_vars

\* a reload of DocForcing: the rule of priority 9 loaded last comes first, the two
\* rules of priority 7 keep their load order, and all four match an alert
C26_Witness ==
    /\ op = "reload_rules"
    /\ out.k = "none"
    /\ rules = <<DocForcing[4], DocForcing[2], DocForcing[3], DocForcing[1]>>
    /\ rule_match(validate_event(AlertHi, next_id).ev, rules) = rules
    /\ Len(logs) > 0

(***************************************************************************)
(* SpecDown: engines constructed with chains of downgrade rules and with   *)
(* rules whose actions do not fire, then a few calls                       *)
(***************************************************************************)
\* rule A maps NOW to LATER, rule B of lower priority, loaded first, maps LATER
\* to NEVER
DocChain ==
    <<Rule("r_b", 2, NoMatch, Downgrade("LATER" :> "NEVER")),
      Rule("r_a", 8, MatchTypes({"alert"}), Downgrade("NOW" :> "LATER"))>>
\* an empty action, a mapping from NEVER only, and a limit of two a day
DocInert ==
    <<Rule("r_empty", 5, NoMatch, NoAction),
      Rule("r_dg", 4, NoMatch, Downgrade("NEVER" :> "LATER")),
      Rule("r_lim", 3, MatchTypes({"reminder", "alert"}), LimitPerDay(2))>>
DownDocs == {DocChain, DocInert, DocOverrides}
DownEvents == {AlertBang, ReminderBang, PromoBang}

InitDown == InitConstructed(DownDocs)

DownCall(raw_event) ==
    /\ nsteps < MaxSteps + 1
    /\ Call(raw_event)
    /\ nsteps' = nsteps + 1
    /\ UNCHANGED nwarm

NextDown == \E raw_event \in DownEvents : DownCall(raw_event)

SpecDown == InitDown /\ [][NextDown]_vars

\* the label the classifier gives the event of that call
Label == classify(Validated.ev, simulate_failure).label
\* no matching rule returns early: none forces, none has its limit reached
NoEarlyReturn == Forcing = {} /\ \A i \in Capping : ~CapReached(i)
\* what the downgrades of the matching rules from rule i on make of a decision,
\* each applied to the decision left by the rules before it, and the last rule
\* that changed it
RECURSIVE DowngradeChain(_, _)
DowngradeChain(i, cur) ==
    IF i > Len(rules) THEN cur
    ELSE IF /\ i \in Matching
            /\ "downgrade" \in rules[i].action.keys
            /\ cur.decision \in DOMAIN rules[i].action.downgrade
    THEN DowngradeChain(i + 1, [decision |-> rules[i].action.downgrade[cur.decision],
                               id |-> RuleId(rules[i])])
    ELSE DowngradeChain(i + 1, cur)
ChainOf(d) == DowngradeChain(1, [decision |-> d, id |-> NoneStr])
AppliedTo(d) == apply_actions(Validated.ev, rule_match(Validated.ev, rules), d, history, now)

\* C27: downgrades compose in priority order, each matched downgrade tested
\* against the decision left by the rules before it; the result carries the
\* last decision, RULE_OVERRIDE and the id of the last rule that changed it; a
\* downgrade whose mapping lacks the current decision changes nothing.
C27_DowngradesCompose ==
    [][StageCase /\ StageCovered /\ NoEarlyReturn =>
         /\ \A d \in DECISIONS :
               AppliedTo(d) = IF ChainOf(d).id = NoneStr
                              THEN RuleResult(d, NoneStr, NoneStr, NoneStr)
                              ELSE RuleResult(ChainOf(d).decision, "RULE_OVERRIDE",
                                              ChainOf(d).id, "rule")
         /\ ChainOf(Label).id # NoneStr =>
               /\ out'.k = "returned"
               /\ out'.matched_rule_id = ChainOf(Label).id
               /\ ChainOf(Label).decision = "NEVER" =>
                      out'.decision = "NEVER" /\ out'.explanation_code = "RULE_OVERRIDE"]_vars

\* an urgent alert under DocChain: r_a takes NOW to LATER, r_b takes that LATER to
\* NEVER, and the call returns NEVER / RULE_OVERRIDE / r_b
C27_Witness ==
    /\ op = "process_event"
    /\ rules = SortRules(DocChain)
    /\ raw = AlertBang
    /\ classify(validate_event(AlertBang, next_id).ev, simulate_failure).label = "NOW"
    /\ out = Returned("NEVER", NoneIso, "RULE_OVERRIDE", "rule", "r_b")

\* none of the matching rules acts on decision d
Inert(d) ==
    \A i \in Matching :
        /\ "force_decision" \notin rules[i].action.keys
        /\ "downgrade" \in rules[i].action.keys => d \notin DOMAIN rules[i].action.downgrade
        /\ "limit_per_day" \in rules[i].action.keys => ~CapReached(i)

\* C28: when rules match and none of their actions fires, apply_actions returns
\* the caller's decision with a null code, and the call keeps the classifier's
\* decision, code and reason with matched_rule_id null: it returns what an
\* engine without rules returns.
C28_InertRulesChangeNothing ==
    [][StageCase /\ StageCovered /\ Matching # {} =>
         /\ \A d \in DECISIONS :
               Inert(d) => AppliedTo(d) = RuleResult(d, NoneStr, NoneStr, NoneStr)
         /\ Inert(Label) =>
               /\ PostRule = Current(Label, classify(Validated.ev, simulate_failure).explanation_code,
                                     NoneStr, classify(Validated.ev, simulate_failure).reason)
               /\ out'.matched_rule_id = NoneStr
               /\ out' = process_event(history, logs, <<>>, simulate_failure, now, next_id,
                                       raw').out]_vars

\* the second reminder of the day under DocInert: the empty action, the mapping
\* from NEVER and the limit of two all match, none acts, and the classifier's
\* LATER is returned
C28_Witness ==
    /\ op = "process_event"
    /\ rules = SortRules(DocInert)
    /\ raw = ReminderBang
    /\ Len(history["u1"]) = 2
    /\ history["u1"][1].event_type = "reminder"
    /\ out.k = "returned"
    /\ out.decision = "LATER"
    /\ out.explanation_code \in {"LLM_DECISION", "FALLBACK"}
    /\ out.matched_rule_id = NoneStr

(***************************************************************************)
(* SpecBranch: reminders and messages at the hours where the scheduler's   *)
(* branches change, under a rule that forces LATER, a rule that forces     *)
(* reminders to NOW, or no rule, after a run of alerts that fills the      *)
(* noise and frequency windows                                             *)
(***************************************************************************)
BranchTimes == {At(0, 0), At(5, 59), At(6, 0), At(8, 59), At(9, 0), At(21, 59), At(22, 0)}
BranchEvents ==
    {BaseEvent("u1", type, TextBang, Iso(t, "Z")) :
        type \in {"reminder", "message"}, t \in BranchTimes}
    \cup {BaseEvent("u1", "reminder", TextBang, Iso(At(8, 59), "+05:30")),
          BaseEvent("u1", "message", TextBang, Iso(At(23, 59), "-02:00"))}
DocLaterAll == <<Rule("r_later", 5, NoMatch, Force("LATER"))>>
DocNowReminder == <<Rule("r_now", 5, MatchTypes({"reminder"}), Force("NOW"))>>
BranchDocs == {DocEmpty, DocLaterAll, DocNowReminder}

InitBranch == InitConstructed(BranchDocs)

BranchFiller ==
    /\ nsteps = 0
    /\ nwarm < SchedFillerCalls
    /\ Call(AlertLate)
    /\ nwarm' = nwarm + 1
    /\ UNCHANGED nsteps

BranchCall(raw_event) ==
    /\ nsteps < SchedCalls
    /\ Call(raw_event)
    /\ nsteps' = nsteps + 1
    /\ UNCHANGED nwarm

NextBranch ==
    \/ BranchFiller
    \/ \E raw_event \in BranchEvents : BranchCall(raw_event)

SpecBranch == InitBranch /\ [][NextBranch]_vars

\* the timestamp of the event of that call and the time the call scheduled
EventTime == Validated.ev.parsed_timestamp
ScheduledTime == FromIso(out'.scheduled_time).dt
\* the clock time h:00 of the day `days` days after the day of ts, in the zone of ts
ClockTime(ts, days, h) ==
    [ts EXCEPT !.local = ((ts.local \div MinutesPerDay) + days) * MinutesPerDay + h * 60]
MinuteOfDay(ts) == ts.local % MinutesPerDay
InQuietHours(ts) ==
    MinuteOfDay(ts) >= QUIET_HOUR_START * 60 \/ MinuteOfDay(ts) < QUIET_HOUR_END * 60
\* a call that returned LATER with a scheduled time
ScheduledCall ==
    /\ IsCall
    /\ Validated.k = "ok"
    /\ out'.k = "returned"
    /\ out'.decision = "LATER"
    /\ FromIso(out'.scheduled_time).k = "ok"

\* C29: the scheduler picks its branch by the final code first and the event
\* type second: RULE_OVERRIDE gives the quiet-hour resume time or timestamp + 15
\* minutes, FREQUENCY_LIMIT gives timestamp + BASE_BACKOFF_MINUTES *
\* max(1, frequency_count - 3), both even for a reminder; under any other code a
\* reminder gets 09:00 today when its hour is below 9 and 09:00 tomorrow otherwise,
\* and every other type timestamp + 15 minutes.
C29_BranchByCodeThenType ==
    [][IsCall /\ Validated.k = "ok" /\ out'.k = "returned" /\ out'.decision = "LATER" =>
         /\ FromIso(out'.scheduled_time).k = "ok"
         /\ out'.explanation_code
                \in {"RULE_OVERRIDE", "FREQUENCY_LIMIT", "LLM_DECISION", "FALLBACK",
                     "CONFLICT_NOISE_LIMIT"}
         /\ out'.explanation_code = "RULE_OVERRIDE" =>
                IF InQuietHours(EventTime)
                THEN /\ MinuteOfDay(ScheduledTime) = QUIET_RESUME_HOUR * 60
                     /\ ScheduledTime.local - EventTime.local \in 1..(2 * MinutesPerDay)
                     /\ ScheduledTime.off = EventTime.off
                ELSE ScheduledTime = PlusMinutes(EventTime, 15)
         /\ out'.explanation_code = "FREQUENCY_LIMIT" =>
                ScheduledTime
                    = PlusMinutes(EventTime,
                                  BASE_BACKOFF_MINUTES
                                  * (IF FreqCount - 3 > 1 THEN FreqCount - 3 ELSE 1))
         /\ out'.explanation_code \notin {"RULE_OVERRIDE", "FREQUENCY_LIMIT"} =>
                ScheduledTime
                    = IF Validated.ev.event_type = "reminder"
                      THEN IF MinuteOfDay(EventTime) < DEFAULT_WORKING_HOUR * 60
                           THEN ClockTime(EventTime, 0, DEFAULT_WORKING_HOUR)
                           ELSE ClockTime(EventTime, 1, DEFAULT_WORKING_HOUR)
                      ELSE PlusMinutes(EventTime, 15)]_vars

\* a reminder at 21:59 that a rule forced to NOW and the frequency limit demoted:
\* it is scheduled by the back-off, not for 09:00
C29_Witness ==
    /\ op = "process_event"
    /\ rules = DocNowReminder
    /\ raw = BaseEvent("u1", "reminder", TextBang, Iso(At(21, 59), "Z"))
    /\ out.k = "returned"
    /\ out.decision = "LATER"
    /\ out.explanation_code = "FREQUENCY_LIMIT"
    /\ out.matched_rule_id = "r_now"
    /\ out.scheduled_time = Iso(At(21, 59) + 2 * BASE_BACKOFF_MINUTES, "+00:00")

\* C30 (as stated): a LATER decision with code RULE_OVERRIDE whose event hour is a
\* quiet hour is scheduled for the earliest 08:00 strictly after the event's
\* timestamp, for an event between 22:00 and 23:59 and for an event between
\* 00:00 and 05:59 alike; outside quiet hours it is timestamp + 15 minutes.
C30_QuietHoursResumeNextMorning ==
    [][ScheduledCall /\ out'.explanation_code = "RULE_OVERRIDE" =>
         ScheduledTime
             = IF InQuietHours(EventTime)
               THEN IF MinuteOfDay(EventTime) < QUIET_RESUME_HOUR * 60
                    THEN ClockTime(EventTime, 0, QUIET_RESUME_HOUR)
                    ELSE ClockTime(EventTime, 1, QUIET_RESUME_HOUR)
               ELSE PlusMinutes(EventTime, 15)]_vars

(***************************************************************************)
(* SpecHours: engines whose one rule is conditioned on a time_window       *)
(* (plain, wrapping midnight, empty), and messages stamped at the hours    *)
(* where the windows open and close, in UTC and with an offset             *)
(***************************************************************************)
MatchHours(start_hour, end_hour) ==
    [NoMatch EXCEPT !.keys = {"time_window"},
                    !.time_window = [keys |-> {"start_hour", "end_hour"},
                                     start_hour |-> start_hour, end_hour |-> end_hour]]
DocEvening == <<Rule("r_eve", 5, MatchHours(17, 18), Force("NEVER"))>>
DocNight == <<Rule("r_night", 5, MatchHours(QUIET_HOUR_START, QUIET_HOUR_END), Force("LATER"))>>
DocNoHours == <<Rule("r_none", 5, MatchHours(DEFAULT_WORKING_HOUR, DEFAULT_WORKING_HOUR), Force("NOW"))>>
HourDocs == {DocEvening, DocNight, DocNoHours}
HourEvents ==
    {BaseEvent("u1", "message", TextBang, Iso(At(h, 0), "Z")) : h \in {5, 6, 9, 17, 18, 21, 22}}
    \cup {BaseEvent("u1", "message", TextBang, Iso(At(23, 0), "+05:30")),
          BaseEvent("u1", "message", TextBang, Iso(At(17, 30), "+05:30"))}

InitHours == InitConstructed(HourDocs)

HoursCall(raw_event) ==
    /\ nsteps < MaxSteps
    /\ Call(raw_event)
    /\ nsteps' = nsteps + 1
    /\ UNCHANGED nwarm

NextHours == \E raw_event \in HourEvents : HoursCall(raw_event)

SpecHours == InitHours /\ [][NextHours]_vars

\* the hour of the instant of a timestamp, in UTC
UtcHourOf(ts) == ((IF ts.aware THEN ts.local - ts.off ELSE ts.local) % MinutesPerDay) \div 60
\* hour lies in [start, end), or in the window that wraps midnight when start > end
InHours(hour, start, end) ==
    IF start > end THEN hour >= start \/ hour < end
    ELSE start <= hour /\ hour < end

\* C31 (as stated): the quiet-hour test holds exactly for the hours 22..23 and
\* 0..5, and a rule's time_window matches exactly when the hour of the event's
\* timestamp in UTC lies in [start_hour, end_hour), wrapping midnight when
\* start_hour > end_hour.
C31_HourWindowsInUtc ==
    [][IsCall /\ Validated.k = "ok" =>
         /\ \A h \in 0..23 : is_quiet_hour(h) <=> (h \in 22..23 \/ h \in 0..5)
         /\ \A i \in 1..Len(rules) :
               LET tw == rules[i].match.time_window
                   inside == InHours(UtcHourOf(Validated.ev.parsed_timestamp),
                                     tw.start_hour, tw.end_hour)
               IN /\ matches_rule(Validated.ev, rules[i]) <=> inside
                  /\ StageCase /\ out'.k = "returned" =>
                         ((out'.matched_rule_id = RuleId(rules[i])) <=> inside)]_vars

(***************************************************************************)
(* SpecScore: an engine without rules classifies events whose type,        *)
(* priority hint, channel and text give the three scores every order       *)
(***************************************************************************)
MaxScore == 4
ScoreEvents ==
    {[BaseEvent("u1", type, text, Iso(T0, "Z")) EXCEPT
          !.keys = IF hint = NoneStr THEN @ ELSE @ \cup {"priority_hint"},
          !.priority_hint = hint, !.channel = channel] :
        type \in {"alert", "reminder", "promotion", "message"},
        hint \in {NoneStr, "low", "high", "urgent"},
        channel \in {"push", "sms"},
        text \in {TextBang, TextSale}}

InitScore == InitConstructed({DocEmpty})

ScoreCall(raw_event) ==
    /\ nsteps < SchedCalls
    /\ Call(raw_event)
    /\ nsteps' = nsteps + 1
    /\ UNCHANGED nwarm

NextScore == \E raw_event \in ScoreEvents : ScoreCall(raw_event)

SpecScore == InitScore /\ [][NextScore]_vars

\* score a is strictly greater than both b and c
UniqueMax(a, b, c) == a > b /\ a > c
\* the reference selection of the label and code from the three boosted scores
ReferenceLabel(event_type, u, p, l) ==
    CASE UniqueMax(u, p, l) -> <<"NOW", IF u >= 2 THEN "URGENT_KEYWORD" ELSE "LLM_DECISION">>
      [] ~UniqueMax(u, p, l) /\ UniqueMax(p, u, l) -> <<"NEVER", "LLM_DECISION">>
      [] ~UniqueMax(u, p, l) /\ ~UniqueMax(p, u, l) /\ l > 0 -> <<"LATER", "LLM_DECISION">>
      [] OTHER -> <<FALLBACK_EVENT_TYPE_MAP[event_type], "LLM_DECISION">>
\* the boosted scores of the event of that call
UrgentScore ==
    Hits(Lower(Validated.ev.title \o <<" ">> \o Validated.ev.message)).urgent
    + (IF Validated.ev.priority_hint = "urgent" THEN 3 ELSE 0)
    + (IF Validated.ev.priority_hint = "high" THEN 2 ELSE 0)
    + (IF Validated.ev.event_type \in {"alert", "system"} THEN 2 ELSE 0)
    + (IF Validated.ev.channel = "sms" THEN 1 ELSE 0)
PromoScore ==
    Hits(Lower(Validated.ev.title \o <<" ">> \o Validated.ev.message)).promo
    + (IF Validated.ev.priority_hint = "low" THEN 2 ELSE 0)
    + (IF Validated.ev.event_type = "promotion" THEN 3 ELSE 0)
LaterScore ==
    Hits(Lower(Validated.ev.title \o <<" ">> \o Validated.ev.message)).later
    + (IF Validated.ev.event_type = "reminder" THEN 2 ELSE 0)

\* C32: the classifier's label and code are those of the reference selection,
\* NOW for a strictly greatest urgent score (URGENT_KEYWORD from 2 up), else NEVER
\* for a strictly greatest promo score, else LATER for a positive later score, else
\* the event type's default, for every triple of scores and every event type; and
\* a call without rules, frequency or noise pressure returns that label and code.
C32_LabelFromScores ==
    [][IsCall /\ Validated.k = "ok" =>
         /\ nproc = 0 =>
               \A event_type \in VALID_EVENT_TYPES :
               \A u \in 0..MaxScore : \A p \in 0..MaxScore : \A l \in 0..MaxScore :
                   /\ ScoreLabel(event_type, u, p, l).label
                          = ReferenceLabel(event_type, u, p, l)[1]
                   /\ ScoreLabel(event_type, u, p, l).explanation_code
                          = ReferenceLabel(event_type, u, p, l)[2]
         /\ llm_classify(Validated.ev).label
                = ReferenceLabel(Validated.ev.event_type, UrgentScore, PromoScore, LaterScore)[1]
         /\ StageCase /\ ~simulate_failure =>
               /\ out'.k = "returned"
               /\ out'.decision
                      = ReferenceLabel(Validated.ev.event_type, UrgentScore, PromoScore,
                                       LaterScore)[1]
               /\ out'.explanation_code
                      = ReferenceLabel(Validated.ev.event_type, UrgentScore, PromoScore,
                                       LaterScore)[2]]_vars

\* a reminder with priority_hint high: urgent and later tie at 2 and the call
\* returns LATER / LLM_DECISION
C32_Witness ==
    /\ op = "process_event"
    /\ ~simulate_failure
    /\ raw.event_type = "reminder"
    /\ raw.priority_hint = "high"
    /\ raw.channel = "push"
    /\ raw.message = TextBang
    /\ out.k = "returned"
    /\ out.decision = "LATER"
    /\ out.explanation_code = "LLM_DECISION"

(***************************************************************************)
(* SpecWindow: an engine without rules; events stamped just outside, at    *)
(* and inside the edge of the dedupe window and in the future, with a      *)
(* dedupe_key or with a text, after a run of alerts stamped in the future; *)
(* the wall clock advances by single minutes                               *)
(***************************************************************************)
\* a message with dedupe_key k1 and no word in its text, stamped d minutes from T0
KeyedAt(d) ==
    With(BaseEvent("u1", "message", TextBang, Iso(T0 + d, "Z")), "dedupe_key", "k1")
\* a message without dedupe_key, stamped d minutes from T0
TextAt(d) == BaseEvent("u1", "message", TextHi, Iso(T0 + d, "Z"))
\* an alert stamped ahead of the wall clock
AlertFuture == BaseEvent("u1", "alert", TextBang, Iso(T0 + 3 * DEDUPE_WINDOW_MINUTES, "Z"))
WindowEvents ==
    {KeyedAt(-(DEDUPE_WINDOW_MINUTES + 1)), KeyedAt(-DEDUPE_WINDOW_MINUTES),
     KeyedAt(1 - DEDUPE_WINDOW_MINUTES), KeyedAt(3 * DEDUPE_WINDOW_MINUTES),
     TextAt(-(DEDUPE_WINDOW_MINUTES + 1)), TextAt(-DEDUPE_WINDOW_MINUTES), AlertFuture}

InitWindow == InitConstructed({DocEmpty})

WindowFiller ==
    /\ nsteps = 0
    /\ nwarm < FREQUENCY_LIMIT
    /\ Call(AlertFuture)
    /\ nwarm' = nwarm + 1
    /\ UNCHANGED nsteps

WindowCall(raw_event) ==
    /\ nsteps < MaxSteps
    /\ Call(raw_event)
    /\ nsteps' = nsteps + 1
    /\ UNCHANGED nwarm

\* a minute passes
WindowTick ==
    /\ nsteps < MaxSteps
    /\ now' = now + 1
    /\ nsteps' = nsteps + 1
    /\ op' = "tick"
    /\ UNCHANGED <<history, logs, rules, simulate_failure, next_id, raw, out, nproc,
                   nwarm, replay, th, base, adm>>

NextWindow ==
    \/ WindowFiller
    \/ \E raw_event \in WindowEvents : WindowCall(raw_event)
    \/ WindowTick

SpecWindow == InitWindow /\ [][NextWindow]_vars

\* the indices of the records of the user of that call whose timestamp is at or
\* after wall-clock now minus window
Within(window) ==
    {i \in DOMAIN history[Validated.ev.user_id] :
        Utc(history[Validated.ev.user_id][i].parsed_timestamp) >= now - window}
\* some record in the dedupe window carries the dedupe_key of the event
KeyInWindow ==
    /\ Validated.ev.dedupe_key # NoneStr
    /\ \E i \in Within(DEDUPE_WINDOW_MINUTES) :
          history[Validated.ev.user_id][i].dedupe_key = Validated.ev.dedupe_key
\* some record in the dedupe window carries the non-empty text of the event
TextInWindow ==
    /\ EventText(Validated.ev) # <<>>
    /\ \E i \in Within(DEDUPE_WINDOW_MINUTES) :
          history[Validated.ev.user_id][i].normalized_text = EventText(Validated.ev)
\* the history without the records older than the widest window
RECURSIVE KeepSince(_, _)
KeepSince(s, t) ==
    IF s = <<>> THEN <<>>
    ELSE IF Utc(Head(s).parsed_timestamp) >= t
         THEN <<Head(s)>> \o KeepSince(Tail(s), t)
         ELSE KeepSince(Tail(s), t)
RecentOnly == [u \in DOMAIN history |-> KeepSince(history[u], now - NOISE_LIMIT_WINDOW_MINUTES)]

\* C33: every history window is cut off relative to wall-clock now, boundary
\* included: a record is matched by the dedupe check, counted in freq_count and
\* counted in urgent_count exactly when its timestamp >= now - window, whatever
\* the timestamp of the incoming event; records older than every window have no
\* influence on the outcome, and a record stamped in the future is counted.
C33_WindowsRelativeToNow ==
    [][IsCall /\ Validated.k = "ok" /\ StageCovered =>
         /\ out'.k = "returned"
         /\ out'.explanation_code = "DUPLICATE_DEDUPE_KEY" <=> KeyInWindow
         /\ out'.explanation_code = "DUPLICATE_TEXT_SIMILAR" <=> ~KeyInWindow /\ TextInWindow
         /\ StageCase /\ PostRule.decision = "NOW" =>
               /\ out'.explanation_code = "FREQUENCY_LIMIT"
                      <=> Cardinality(Within(FREQUENCY_WINDOW_MINUTES)) >= FREQUENCY_LIMIT
               /\ out'.explanation_code = "CONFLICT_NOISE_LIMIT"
                      <=> /\ Cardinality(Within(FREQUENCY_WINDOW_MINUTES)) < FREQUENCY_LIMIT
                          /\ Cardinality({i \in Within(NOISE_LIMIT_WINDOW_MINUTES) :
                                 /\ history[Validated.ev.user_id][i].decision = "NOW"
                                 /\ (history[Validated.ev.user_id][i].event_type
                                        = Validated.ev.event_type
                                     \/ history[Validated.ev.user_id][i].source
                                        = Validated.ev.source)})
                                >= NOISE_LIMIT_MAX_URGENT
         /\ out' = process_event(RecentOnly, logs, rules, simulate_failure, now, next_id,
                                 raw').out]_vars

\* the second event with key k1 stamped a minute older than the window: the first
\* is in the history with the same key and the same timestamp, and the second is
\* no duplicate
C33_Witness ==
    /\ op = "process_event"
    /\ raw = KeyedAt(-(DEDUPE_WINDOW_MINUTES + 1))
    /\ Len(history["u1"]) = 2
    /\ history["u1"][1].dedupe_key = "k1"
    /\ history["u1"][1].parsed_timestamp = history["u1"][2].parsed_timestamp
    /\ out.k = "returned"
    /\ out.decision = "LATER"
    /\ out.explanation_code \in {"LLM_DECISION", "FALLBACK"}

(***************************************************************************)
(* SpecText: an engine without rules; messages whose texts are equal, one  *)
(* substitution apart at equal length, one character longer, or unrelated, *)
(* with and without a dedupe_key                                           *)
(***************************************************************************)
TextEvents ==
    {BaseEvent("u1", "message", text, Iso(T0, "Z")) : text \in {TextNine, TextTen, TextTenX, TextHi}}
    \cup {With(BaseEvent("u1", "message", text, Iso(T0, "Z")), "dedupe_key", "k1") :
            text \in {TextTen, TextHi}}
    \cup {BaseEvent("u2", "message", TextTen, Iso(T0, "Z"))}

InitText == InitConstructed({DocEmpty})

TextCall(raw_event) ==
    /\ nsteps < MaxSteps + 1
    /\ Call(raw_event)
    /\ nsteps' = nsteps + 1
    /\ UNCHANGED nwarm

NextText == \E raw_event \in TextEvents : TextCall(raw_event)

SpecText == InitText /\ [][NextText]_vars

\* the ratio 1 - distance / max(len) of two texts is at least the threshold
RatioAtLeastThreshold(a, b) ==
    \/ a = b
    \/ /\ a # <<>>
       /\ b # <<>>
       /\ (Max2(Len(a), Len(b)) - LevDistance(a, b)) * THRESHOLD_DEN
              >= THRESHOLD_NUM * Max2(Len(a), Len(b))
\* the in-window records of the user with a text whose ratio to the event's text
\* is at least the threshold
Qualifying ==
    {i \in Within(DEDUPE_WINDOW_MINUTES) :
        /\ history[Validated.ev.user_id][i].normalized_text # <<>>
        /\ RatioAtLeastThreshold(EventText(Validated.ev),
                                 history[Validated.ev.user_id][i].normalized_text)}

\* C34 (as stated): a dedupe-key match takes precedence; otherwise an event with
\* a non-empty normalized text is DUPLICATE_TEXT_SIMILAR exactly when some
\* in-window record with a text has a ratio 1 - distance / max(len) of at least
\* the threshold, and the record reported is the oldest such record; the length
\* gate rejects no such pair.
C34_FirstSimilarRecord ==
    [][IsCall /\ Validated.k = "ok" /\ StageCovered =>
         LET found == dedup_check(history, Validated.ev, now)
         IN /\ found.k = "ok"
            /\ KeyInWindow => found.duplicate_type = "DUPLICATE_DEDUPE_KEY"
            /\ ~KeyInWindow =>
                  IF EventText(Validated.ev) # <<>> /\ Qualifying # {}
                  THEN /\ found.duplicate_type = "DUPLICATE_TEXT_SIMILAR"
                       /\ found.matched_event_id
                              = history[Validated.ev.user_id][FirstOf(Qualifying)].event_id
                       /\ out'.explanation_code = "DUPLICATE_TEXT_SIMILAR"
                  ELSE /\ ~found.is_duplicate
                       /\ out'.explanation_code
                              \notin {"DUPLICATE_TEXT_SIMILAR", "DUPLICATE_DEDUPE_KEY"}]_vars
(***************************************************************************)
(* SpecValid: an engine without rules fed with raw inputs that vary one    *)
(* clause of the validator at a time                                       *)
(***************************************************************************)
Plain == BaseEvent("u1", "alert", TextHi, Iso(T0, "Z"))
ValidEvents ==
    {Plain, NonDict, ListType, BadType, BadTimestamp, NumberId}
    \cup {Without(Plain, REQUIRED_FIELDS[i]) : i \in 1..Len(REQUIRED_FIELDS)}
    \cup {With(Plain, f, "") : f \in {"user_id", "event_type", "channel"}}
    \cup {With(Plain, "message", <<>>), With(Plain, "timestamp", EmptyIso),
          With(Plain, "timestamp", NumIso), With(Plain, "channel", "fax"),
          With(Plain, "timestamp", Iso(T0, "")),
          With(Plain, "timestamp", Iso(T0 + 330, "+05:30")),
          With(With(Plain, "source", "s1"), "title", TextHi)}
    \cup {With(Plain, "priority_hint", h) : h \in {"low", "urgent", "bogus", "", ListValue}}
    \cup {With(Plain, "expires_at", e) :
            e \in {Iso(T0 + 5, "Z"), Iso(T0 + 5, "+00:00"), BadIso, EmptyIso, NumIso}}

InitValid == InitConstructed({DocEmpty})

ValidCall(raw_event) ==
    /\ nsteps < MaxSteps
    /\ Call(raw_event)
    /\ nsteps' = nsteps + 1
    /\ UNCHANGED nwarm

NextValid == \E raw_event \in ValidEvents : ValidCall(raw_event)

SpecValid == InitValid /\ [][NextValid]_vars

\* the value parses as ISO-8601, a Z suffix read as UTC
ParsesIso(s) == s.k = "iso"

\* the acceptance condition in the words of the claim
Acceptable(event) ==
    /\ event.isdict
    /\ \A i \in 1..Len(REQUIRED_FIELDS) :
           /\ REQUIRED_FIELDS[i] \in event.keys
           /\ ~Falsy(event, REQUIRED_FIELDS[i])
    /\ event.event_type \in VALID_EVENT_TYPES
    /\ event.channel \in VALID_CHANNELS
    /\ "priority_hint" \in event.keys => event.priority_hint \in VALID_PRIORITY_HINTS
    /\ ParsesIso(event.timestamp)
    /\ "expires_at" \in event.keys => ParsesIso(event.expires_at)

\* C35 (as stated): validate_event accepts a raw event exactly when it is a
\* mapping with the five required fields present and non-empty, event_type and
\* channel in their sets, priority_hint absent or in its set, and timestamp and
\* a present expires_at parsing as ISO-8601; every other input is rejected with a
\* validation error; on acceptance a missing event_id, source and title are
\* filled with the generated id, "unknown" and "".
C35_ValidatorAcceptsExactly ==
    [][IsCall =>
         IF Acceptable(raw')
         THEN /\ Validated.k = "ok"
              /\ Validated.ev.event_id
                     = (IF "event_id" \in raw'.keys THEN raw'.event_id ELSE next_id)
              /\ Validated.ev.source
                     = (IF "source" \in raw'.keys THEN raw'.source ELSE "unknown")
              /\ Validated.ev.title
                     = (IF "title" \in raw'.keys THEN raw'.title ELSE <<>>)
         ELSE /\ Validated.k = "ValidationError"
              /\ out'.k = "returned"
              /\ out'.explanation_code = "VALIDATION_ERROR"]_vars
(***************************************************************************)
(* SpecUsers: the same events sent for two users, under no rules and under *)
(* daily limits, after up to FREQUENCY_LIMIT alerts of the first user      *)
(***************************************************************************)
AlertOf(u) == BaseEvent(u, "alert", TextBang, Iso(T0, "Z"))
UserEvents ==
    {AlertOf(u) : u \in UserIds}
    \cup {With(BaseEvent(u, "message", TextOtp, Iso(T0, "Z")), "dedupe_key", "k1") :
            u \in UserIds}
    \cup {BaseEvent(u, "reminder", TextHi, Iso(T0, "Z")) : u \in UserIds}
UserDocs == {DocEmpty, DocTwoCaps}

InitUsers == InitConstructed(UserDocs)

\* the alerts of the first user that precede the events explored
UsersFiller ==
    /\ nsteps = 0
    /\ nwarm < FREQUENCY_LIMIT
    /\ Call(AlertOf("u1"))
    /\ nwarm' = nwarm + 1
    /\ UNCHANGED nsteps

UsersCall(raw_event) ==
    /\ nsteps < MaxSteps
    /\ Call(raw_event)
    /\ nsteps' = nsteps + 1
    /\ UNCHANGED nwarm

NextUsers ==
    \/ UsersFiller
    \/ \E raw_event \in UserEvents : UsersCall(raw_event)

SpecUsers == InitUsers /\ [][NextUsers]_vars

\* the history in which only the user of the event has records
OwnOnly == [u \in DOMAIN history |-> IF u = raw'.user_id THEN history[u] ELSE <<>>]

\* C36: a call for one user leaves the history of every other user unchanged,
\* and its outcome (raise or return, decision and explanation code) is the one
\* the same call gives on an engine that has processed no event of any other
\* user: dedupe, frequency, noise and daily-limit counts read the records of the
\* event's own user only.
C36_PerUserIsolation ==
    [][IsCall =>
         /\ \A u \in UserIds : u # raw'.user_id => history'[u] = history[u]
         /\ Agree(out', process_event(OwnOnly, <<>>, rules, simulate_failure, now, next_id,
                                      raw').out)]_vars

\* the second user's alert comes back NOW, and is their first record, after the
\* first user has reached the frequency limit
C36_Witness ==
    /\ op = "process_event"
    /\ raw = AlertOf("u2")
    /\ Len(history["u1"]) >= FREQUENCY_LIMIT
    /\ Len(history["u2"]) = 1
    /\ out.k = "returned"
    /\ out.decision = "NOW"
(***************************************************************************)
(* SpecSuppressed: an alert with a dedupe_key sent up to FREQUENCY_LIMIT   *)
(* + 1 times (one original, the rest suppressed duplicates), then alerts   *)
(* and reminders, without rules and under daily limits                     *)
(***************************************************************************)
AlertKeyed == With(AlertOf("u1"), "dedupe_key", "k1")
SuppressedEvents == {AlertKeyed, AlertOf("u1"), AlertHi, ReminderBang}
SuppressedDocs == {DocEmpty, DocTwoCaps}

InitSuppressed == InitConstructed(SuppressedDocs)

SuppressedFiller ==
    /\ nsteps = 0
    /\ nwarm < FREQUENCY_LIMIT + 1
    /\ Call(AlertKeyed)
    /\ nwarm' = nwarm + 1
    /\ UNCHANGED nsteps

SuppressedCall(raw_event) ==
    /\ nsteps < MaxSteps
    /\ Call(raw_event)
    /\ nsteps' = nsteps + 1
    /\ UNCHANGED nwarm

NextSuppressed ==
    \/ SuppressedFiller
    \/ \E raw_event \in SuppressedEvents : SuppressedCall(raw_event)

SpecSuppressed == InitSuppressed /\ [][NextSuppressed]_vars

\* the in-window records of the user with decision NOW and the event's type or
\* source
NowOfTypeOrSource ==
    {i \in Within(NOISE_LIMIT_WINDOW_MINUTES) :
        /\ history[Validated.ev.user_id][i].decision = "NOW"
        /\ (history[Validated.ev.user_id][i].event_type = Validated.ev.event_type
            \/ history[Validated.ev.user_id][i].source = Validated.ev.source)}
\* the records of the user with the event's type dated today, whatever their decision
TodayOfType ==
    {i \in DOMAIN history[Validated.ev.user_id] :
        /\ history[Validated.ev.user_id][i].event_type = Validated.ev.event_type
        /\ DateOf(history[Validated.ev.user_id][i].parsed_timestamp) = DateOf(UtcNow(now))}

\* C37: freq_count and the limit_per_day count take every record of the user in
\* their window whatever its decision, NEVER records of duplicates included, so
\* an event that is NOW after the rules is LATER / FREQUENCY_LIMIT as soon as
\* FREQUENCY_LIMIT records of any decision are in the window; urgent_count takes
\* only the records whose decision is NOW, so below the frequency limit the
\* event is demoted by the noise limit exactly when that many NOW records of its
\* type or source are in the window.
C37_SuppressedCountForFatigueOnly ==
    [][StageCase /\ StageCovered =>
         /\ count_in_window(history, Validated.ev.user_id, FREQUENCY_WINDOW_MINUTES, now)
                = Ok(Cardinality(Within(FREQUENCY_WINDOW_MINUTES)))
         /\ count_event_type_today(history, Validated.ev.user_id, Validated.ev.event_type, now)
                = Cardinality(TodayOfType)
         /\ count_urgent_by_source_or_type(history, Validated.ev.user_id,
                                           Validated.ev.event_type, Validated.ev.source,
                                           NOISE_LIMIT_WINDOW_MINUTES, now)
                = Ok(Cardinality(NowOfTypeOrSource))
         /\ \A i \in Capping :
                (\A f \in Forcing : f > i) /\ (\A c \in Capping : c >= i)
                /\ Cardinality(TodayOfType) >= rules[i].action.limit_per_day
                => /\ out'.decision = "NEVER"
                   /\ out'.explanation_code = "RULE_OVERRIDE"
         /\ PostRule.decision = "NOW" =>
                IF Cardinality(Within(FREQUENCY_WINDOW_MINUTES)) >= FREQUENCY_LIMIT
                THEN /\ out'.decision = "LATER"
                     /\ out'.explanation_code = "FREQUENCY_LIMIT"
                ELSE IF Cardinality(NowOfTypeOrSource) >= NOISE_LIMIT_MAX_URGENT
                     THEN /\ out'.decision = "LATER"
                          /\ out'.explanation_code = "CONFLICT_NOISE_LIMIT"
                     ELSE /\ out'.decision = "NOW"
                          /\ out'.explanation_code = PostRule.explanation_code]_vars

\* after one alert and FREQUENCY_LIMIT suppressed duplicates of it, an alert that
\* is no duplicate is demoted by the frequency limit
C37_Witness ==
    /\ op = "process_event"
    /\ raw = AlertOf("u1")
    /\ out.k = "returned"
    /\ out.decision = "LATER"
    /\ out.explanation_code = "FREQUENCY_LIMIT"
    /\ Cardinality({i \in 1..Len(history["u1"]) :
                       /\ history["u1"][i].decision = "NEVER"
                       /\ history["u1"][i].explanation_code = "DUPLICATE_DEDUPE_KEY"})
           = FREQUENCY_LIMIT
    /\ Len(history["u1"]) = FREQUENCY_LIMIT + 2
(***************************************************************************)
(* SpecFatigue: events of three types, each from its own source, stamped   *)
(* now or a tick ahead, with and without a rule forcing NOW; first two     *)
(* alerts, two system events and a message, then any events while the      *)
(* clock advances                                                          *)
(***************************************************************************)
Sourced(event_type, source, stamp) ==
    With(BaseEvent("u1", event_type, TextBang, Iso(stamp, "Z")), "source", source)
FatigueRun ==
    <<Sourced("alert", "s1", T0), Sourced("alert", "s1", T0), Sourced("system", "s2", T0),
      Sourced("system", "s2", T0), Sourced("message", "s3", T0)>>
FatigueEvents ==
    {Sourced("alert", "s1", stamp) : stamp \in {T0, T0 + TickMinutes}}
    \cup {Sourced("system", "s2", stamp) : stamp \in {T0, T0 + TickMinutes}}
    \cup {Sourced("message", "s3", stamp) : stamp \in {T0, T0 + TickMinutes}}
    \cup {Sourced("message", "s1", T0)}
FatigueDocs == {DocEmpty, DocForceNow}

InitFatigue == InitConstructed(FatigueDocs)

FatigueFiller ==
    /\ nsteps = 0
    /\ now = T0
    /\ nwarm < Len(FatigueRun)
    /\ Call(FatigueRun[nwarm + 1])
    /\ nwarm' = nwarm + 1
    /\ UNCHANGED nsteps

FatigueCall(raw_event) ==
    /\ nsteps < MaxSteps
    /\ Call(raw_event)
    /\ nsteps' = nsteps + 1
    /\ UNCHANGED nwarm

FatigueTick ==
    /\ now < T0 + 2 * TickMinutes
    /\ now' = now + TickMinutes
    /\ op' = "tick"
    /\ UNCHANGED <<history, logs, rules, simulate_failure, next_id, raw, out, nproc,
                   nwarm, nsteps, replay, th, base, adm>>

NextFatigue ==
    \/ FatigueFiller
    \/ \E raw_event \in FatigueEvents : FatigueCall(raw_event)
    \/ FatigueTick

SpecFatigue == InitFatigue /\ [][NextFatigue]_vars

\* the retained records of user u with decision NOW stamped within the window
RetainedNow(u, window) ==
    {i \in DOMAIN history[u] :
        /\ history[u][i].decision = "NOW"
        /\ Utc(history[u][i].parsed_timestamp) >= now - window}

\* C38: for every user at most FREQUENCY_LIMIT retained NOW records are stamped
\* within the frequency window, and for every event type and for every source
\* at most NOISE_LIMIT_MAX_URGENT retained NOW records of that type (source) are
\* stamped within the noise window, whatever rules are loaded.
C38_FatigueBound ==
    \A u \in DOMAIN history :
        /\ Cardinality(RetainedNow(u, FREQUENCY_WINDOW_MINUTES)) <= FREQUENCY_LIMIT
        /\ \A j \in DOMAIN history[u] :
              /\ Cardinality({i \in RetainedNow(u, NOISE_LIMIT_WINDOW_MINUTES) :
                                 history[u][i].event_type = history[u][j].event_type})
                     <= NOISE_LIMIT_MAX_URGENT
              /\ Cardinality({i \in RetainedNow(u, NOISE_LIMIT_WINDOW_MINUTES) :
                                 history[u][i].source = history[u][j].source})
                     <= NOISE_LIMIT_MAX_URGENT

\* FREQUENCY_LIMIT NOW records are in the frequency window, two of one type among
\* them, and the event that would have been one more is deferred
C38_Witness ==
    /\ op = "process_event"
    /\ Cardinality(RetainedNow("u1", FREQUENCY_WINDOW_MINUTES)) = FREQUENCY_LIMIT
    /\ Cardinality({i \in RetainedNow("u1", NOISE_LIMIT_WINDOW_MINUTES) :
                       history["u1"][i].event_type = "alert"}) = NOISE_LIMIT_MAX_URGENT
    /\ out.k = "returned"
    /\ out.decision = "LATER"
    /\ out.explanation_code = "FREQUENCY_LIMIT"
\* C39: in a call that returns for a non-duplicate valid event, the final
\* decision is never more urgent than the decision after the rule stage: a NOW
\* stays NOW with its code or is demoted with a frequency or noise code (and may
\* then expire), a LATER stays LATER with its code or becomes NEVER with
\* FREQUENCY_SUPPRESSION or EXPIRED, and a NEVER stays NEVER with the explanation
\* code it had after the rule stage.
C39_LaterStagesOnlyDemote ==
    [][StageCase /\ out'.k = "returned" =>
         /\ NotMoreUrgent(out'.decision, PostRule.decision)
         /\ PostRule.decision = "NOW" =>
                \/ /\ out'.decision = "NOW"
                   /\ out'.explanation_code = PostRule.explanation_code
                \/ /\ out'.decision = "LATER"
                   /\ out'.explanation_code \in {"FREQUENCY_LIMIT", "CONFLICT_NOISE_LIMIT"}
                \/ /\ out'.decision = "NEVER"
                   /\ out'.explanation_code = "EXPIRED"
         /\ PostRule.decision = "LATER" =>
                \/ /\ out'.decision = "LATER"
                   /\ out'.explanation_code = PostRule.explanation_code
                \/ /\ out'.decision = "NEVER"
                   /\ out'.explanation_code \in {"FREQUENCY_SUPPRESSION", "EXPIRED"}
         /\ PostRule.decision = "NEVER" =>
                /\ out'.decision = "NEVER"
                /\ out'.explanation_code = PostRule.explanation_code]_vars

\* an update that a rule forced to NEVER keeps NEVER / RULE_OVERRIDE although the
\* user's history is past the suppression threshold
C39_Witness ==
    /\ op = "process_event"
    /\ raw = UpdatePlain
    /\ now = T0
    /\ Len(history["u1"]) > FREQUENCY_LIMIT + 2
    /\ out.k = "returned"
    /\ out.decision = "NEVER"
    /\ out.explanation_code = "RULE_OVERRIDE"
(***************************************************************************)
(* SpecReset: four urgent alerts and two messages with the same            *)
(* dedupe_key, then resets and calls                                       *)
(***************************************************************************)
ResetRun == <<AlertBang, AlertBang, AlertBang, AlertBang, Keyed, Keyed>>
ResetEvents == {AlertBang, Keyed, KeyedHi}
ResetDocs == {DocEmpty, DocForceNow}

InitReset == InitConstructed(ResetDocs)

ResetFiller ==
    /\ nsteps = 0
    /\ nwarm < Len(ResetRun)
    /\ Call(ResetRun[nwarm + 1])
    /\ nwarm' = nwarm + 1
    /\ UNCHANGED nsteps

ResetCall(raw_event) ==
    /\ nsteps < MaxSteps
    /\ Call(raw_event)
    /\ nsteps' = nsteps + 1
    /\ UNCHANGED nwarm

NextReset ==
    \/ ResetFiller
    \/ \E raw_event \in ResetEvents : ResetCall(raw_event)
    \/ Reset

SpecReset == InitReset /\ [][NextReset]_vars

\* a history store without records
EmptyStore == [u \in DOMAIN history |-> <<>>]

\* C40: reset() empties the history of every user and the decision log and
\* leaves the rules and the failure flag as they were; the first call after a
\* reset counts no record for its frequency and noise checks, is not reported
\* as a duplicate, and returns what an engine just constructed with the same
\* rules and flag returns.
C40_ResetStartsAfresh ==
    [][/\ op' = "reset" /\ nsteps' = nsteps + 1 =>
              /\ \A u \in DOMAIN history' : history'[u] = <<>>
              /\ logs' = <<>>
              /\ rules' = rules
              /\ simulate_failure' = simulate_failure
       /\ IsCall /\ op = "reset" /\ Validated.k = "ok" =>
              /\ count_in_window(history, Validated.ev.user_id, FREQUENCY_WINDOW_MINUTES, now)
                     = Ok(0)
              /\ count_urgent_by_source_or_type(history, Validated.ev.user_id,
                                                Validated.ev.event_type, Validated.ev.source,
                                                NOISE_LIMIT_WINDOW_MINUTES, now) = Ok(0)
              /\ dedup_check(history, Validated.ev, now).k = "ok"
              /\ ~dedup_check(history, Validated.ev, now).is_duplicate
              /\ out'.k = "returned"
              /\ out'.explanation_code \notin DUPLICATE_CODES \cup DEMOTION_CODES
              /\ Agree(out', process_event(EmptyStore, <<>>, rules, simulate_failure, now,
                                           next_id, raw').out)]_vars

\* the message with dedupe_key k1 was processed twice, then the engine was reset,
\* and the same message is processed as the only record of the user
C40_Witness ==
    /\ nwarm = Len(ResetRun)
    /\ nsteps = 2
    /\ op = "process_event"
    /\ raw = Keyed
    /\ Len(history["u1"]) = 1
    /\ Len(logs) = 1
    /\ out.k = "returned"
    /\ out.explanation_code \notin DUPLICATE_CODES
====
